---- MODULE Spec2Model ----
(***************************************************************************)
(* Session service of the CLNP verification server (src/server.js): the    *)
(* in-memory challenge store, the signed single-use token, the two verify  *)
(* handlers and the periodic sweeper.                                      *)
(*                                                                         *)
(* Time is counted in units of 60000 ms, the greatest common divisor of    *)
(* the four durations the server compares Date.now() against (TTL 180000,  *)
(* embed TTL 360000, sweep grace 60000, used retention 600000).            *)
(*                                                                         *)
(* Node runs every callback to completion: a handler gives up the thread   *)
(* only at an await.  Spec takes each handler from the end of its body     *)
(* read to its response as one action.  SpecSteps takes the same handlers  *)
(* statement by statement: running names the request whose synchronous     *)
(* section owns the thread (0 when the event loop is idle) and SuspendsAt  *)
(* says at which positions a handler awaits.                               *)
(***************************************************************************)
EXTENDS Integers, Sequences, FiniteSets, TLC

\* ------------------------------------------------------------------ bounds
MaxTime == 12
MaxChallenges == 1
MaxInFlight == 2

\* ------------------------------------------------------- program constants
CHALLENGE_TTL_MS == 3
EMBED_TTL_FACTOR == 2
SWEEP_GRACE_MS == 1
USED_RETENTION_MS == 10
MIN_POINTER_STANDALONE == 50
MIN_POINTER_EMBED == 30
START_TIME == 1

Undefined == -1
NaN == -2
Null == -3
NumericFields == {"challengeId", "expiresAt", "score"}
HMAC_SECRET == "server-secret"
AnalysisExports == {"analyze"}

ChallengeIds == 1 .. MaxChallenges
Slots == 1 .. MaxInFlight
Endpoints == {"/api/verify", "/api/embed/verify"}
Overalls == {640, 650}

VARIABLES
  now,         \* Date.now()
  challenges,  \* the Map challengeId -> record
  nextId,      \* the next fresh challengeId (crypto.randomBytes(16))
  issued,      \* tokens handed to clients, by challengeId
  req,         \* per connection slot: position and locals of its verify handler
  running,     \* slot whose synchronous section is executing, 0 if none
  sessions,    \* lines appended to sessions.jsonl
  lastResp,    \* the response written by the step just taken, if any
  effects,     \* per challengeId: its effects in the order they happened
  call,        \* a function under examination: its name, argument and result
  client       \* the embed client of a page: the fields of its APoPEmbed object

vars == <<now, challenges, nextId, issued, req, running, sessions, lastResp, effects, call, client>>

\* ------------------------------------------------------------ token helpers
\* JSON.stringify(data): a NaN is written as null; the text is well formed
JSONstringify(data) ==
  [wellFormed |-> TRUE,
   value |-> [f \in DOMAIN data |->
                IF f \in NumericFields /\ data[f] = NaN THEN Null ELSE data[f]]]

\* JSON.parse(text): the value the text denotes, <<>> standing for the throw
JSONparse(text) == IF text.wellFormed THEN <<text.value>> ELSE <<>>

\* the string of base64url characters that encodes a text, and back
b64urlEncode(input) == [alphabet |-> "base64url", encodes |-> input]
b64urlDecode(input) == input.encodes

\* HMAC-SHA256 of a string under the server secret, as a string: the three
\* items stand for its characters, injective in the signed string
signPayload(payloadB64) == <<"HS256", HMAC_SECRET, payloadB64>>

\* a token string: parts is the number of pieces split(".") gives, payload and
\* sig are the first and the second piece
makeToken(data) ==
  LET payloadB64 == b64urlEncode(JSONstringify(data))
  IN [isString |-> TRUE, parts |-> 2, payload |-> payloadB64,
      sig |-> signPayload(payloadB64)]

\* the signature is not compared
verifyToken_NoSigCheck(token) ==
  IF ~token.isString THEN <<>>
  ELSE IF token.parts # 2 THEN <<>>
  ELSE JSONparse(b64urlDecode(token.payload))

\* null is the empty sequence, a parsed payload the one-element sequence
verifyToken(token) ==
  IF ~token.isString THEN <<>>
  ELSE IF token.parts # 2 THEN <<>>
  ELSE LET expected == signPayload(token.payload)
       IN IF Len(token.sig) # Len(expected) \/ token.sig # expected THEN <<>>
          ELSE JSONparse(b64urlDecode(token.payload))

TokenPayload(c, e) == [challengeId |-> c, expiresAt |-> e]
MissingToken == [makeToken(TokenPayload(0, 0)) EXCEPT !.isString = FALSE, !.sig = <<>>]
ForgedToken(tok) == [tok EXCEPT !.sig = <<"HS256", "other-key", tok.payload>>]

\* ---------------------------------------------------------- challenge store
generateChallenge(id, t) ==
  [challengeId |-> id, issuedAt |-> t, expiresAt |-> t + CHALLENGE_TTL_MS,
   mode |-> "undefined", used |-> FALSE, usedAt |-> Undefined]

generateEmbedChallenge(id, t) ==
  [challengeId |-> id, issuedAt |-> t,
   expiresAt |-> t + CHALLENGE_TTL_MS * EMBED_TTL_FACTOR,
   mode |-> "embed", used |-> FALSE, usedAt |-> Undefined]

Truthy(n) == n # Undefined /\ n # 0

\* the grace period after expiresAt is not granted
SweepDeletes_NoGrace(rec, t) ==
  \/ rec.used /\ Truthy(rec.usedAt) /\ t - rec.usedAt > USED_RETENTION_MS
  \/ t > rec.expiresAt

\* a used record is deleted by its age since usedAt alone
SweepDeletes_UsedByAgeOnly(rec, t) ==
  IF rec.used
  THEN Truthy(rec.usedAt) /\ t - rec.usedAt > USED_RETENTION_MS
  ELSE t > rec.expiresAt + SWEEP_GRACE_MS

SweepDeletes(rec, t) ==
  \/ rec.used /\ Truthy(rec.usedAt) /\ t - rec.usedAt > USED_RETENTION_MS
  \/ t > rec.expiresAt + SWEEP_GRACE_MS

cleanupChallenges(store, t) ==
  [id \in {i \in DOMAIN store : ~SweepDeletes(store[i], t)} |-> store[id]]

\* the expiry branch answers 410 without touching the record
MarkExpired_NoFlag(rec) == rec

MarkExpired(rec) == [rec EXCEPT !.used = TRUE]

\* the time of use is stored, the flag is not
MarkUsed_NoFlag(rec, t) == [rec EXCEPT !.usedAt = t]

MarkUsed(rec, t) == [rec EXCEPT !.used = TRUE, !.usedAt = t]

\* ------------------------------------------------------------ request bodies
\* pointerLen: length of body.pointer; pointerIterable: its entries are [t,x,y]
\* arrays; phases/canvas/elements: the field is present and passes its test.
Body(tok, len, iter, ph, cv, el) ==
  [token |-> tok, pointerLen |-> len, pointerIterable |-> iter,
   phases |-> ph, canvas |-> cv, elements |-> el]

Shapes ==
  { <<50, TRUE,  TRUE,  TRUE,  TRUE >>,   \* complete for both endpoints
    <<50, TRUE,  TRUE,  TRUE,  FALSE>>,   \* standalone submission
    <<30, TRUE,  FALSE, FALSE, TRUE >>,   \* embed submission
    <<29, TRUE,  TRUE,  TRUE,  TRUE >>,   \* too few samples
    <<50, TRUE,  FALSE, TRUE,  TRUE >>,   \* no phases
    <<50, TRUE,  TRUE,  FALSE, TRUE >>,   \* no canvas
    <<50, FALSE, TRUE,  TRUE,  TRUE >> }  \* samples that are not arrays

Tokens ==
  {MissingToken} \cup
  UNION {{issued[c], ForgedToken(issued[c])} : c \in DOMAIN issued}

Bodies == {Body(tok, sh[1], sh[2], sh[3], sh[4], sh[5]) : tok \in Tokens, sh \in Shapes}

NoBody == Body(MissingToken, 0, FALSE, FALSE, FALSE, FALSE)

\* first failing shape check of handleVerify, "" when the body passes
ShapeErrorStandalone(body) ==
  IF body.pointerLen < MIN_POINTER_STANDALONE THEN "insufficient_pointer_data"
  ELSE IF ~body.phases THEN "missing_phases"
  ELSE IF ~body.canvas THEN "missing_canvas"
  ELSE ""

\* first failing shape check of handleEmbedVerify, "" when the body passes
ShapeErrorEmbed(body) ==
  IF body.pointerLen < MIN_POINTER_EMBED THEN "insufficient_pointer_data"
  ELSE IF ~body.elements THEN "missing_elements"
  ELSE ""

ShapeError(ep, body) ==
  IF ep = "/api/embed/verify" THEN ShapeErrorEmbed(body) ELSE ShapeErrorStandalone(body)

\* analyze(rawData, challenge) throws a TypeError when a pointer sample cannot
\* be destructured, or when the challenge has no path (an embed challenge)
AnalyzeThrows(body, rec) == ~body.pointerIterable \/ rec.mode = "embed"

\* server.js imports analyzeEmbed from analysis.js, which exports AnalysisExports
AnalyzeEmbedThrows(body, rec) == "analyzeEmbed" \notin AnalysisExports

AnalysisThrows(ep, body, rec) ==
  IF ep = "/api/embed/verify" THEN AnalyzeEmbedThrows(body, rec) ELSE AnalyzeThrows(body, rec)

\* ------------------------------------------------------ scoring (analysis.js)
\* numbers are in thousandths; NaN is JavaScript's not-a-number, which no
\* number of the model equals
jsMin(a, b) == IF a = NaN \/ b = NaN THEN NaN ELSE IF a < b THEN a ELSE b
jsMax(a, b) == IF a = NaN \/ b = NaN THEN NaN ELSE IF a > b THEN a ELSE b
jsAdd(a, b) == IF a = NaN \/ b = NaN THEN NaN ELSE a + b
jsMul(a, b) == IF a = NaN \/ b = NaN THEN NaN ELSE (a * b) \div 1000
jsDiv(a, b) == IF a = NaN \/ b = NaN THEN NaN ELSE (a * 1000) \div b
jsLess(a, b) == a # NaN /\ b # NaN /\ a < b
jsGeq(a, b) == a # NaN /\ b # NaN /\ a >= b
jsAbs(a) == IF a = NaN THEN NaN ELSE IF a < 0 THEN 0 - a ELSE a

ScoringConfig ==
  [humanTremorRatioMin |-> 5,
   human1fSlopeRange |-> <<-2500, 0>>,
   humanLatencyRange |-> <<120000, 380000>>,
   humanLatencySD |-> <<15000, 180000>>,
   weights |-> [transferFn |-> 3000, tremor |-> 2500, oneOverF |-> 2000,
                signalDepNoise |-> 2500, crossAxis |-> 2000, pulseResponse |-> 3000,
                cogInterference |-> 2000, minJerk |-> 1500],
   humanThreshold |-> 650,
   uncertainThreshold |-> 350]

\* 1 / (1 + exp(-steepness * (x - center))), rounded to thousandths, at the
\* arguments the pipelines of the model reach
sigmoid(x, center, steepness) ==
  IF x = NaN THEN NaN
  ELSE CASE <<x, center, steepness>> = <<250000, 120000, 30>> -> 980
         [] <<x, center, steepness>> = <<250000, 380000, -30>> -> 980
         [] <<x, center, steepness>> = <<0, 120000, 30>> -> 27
         [] <<x, center, steepness>> = <<0, 380000, -30>> -> 1000
         [] <<x, center, steepness>> = <<60000, 15000, 80>> -> 973
         [] <<x, center, steepness>> = <<60000, 180000, -80>> -> 1000
         [] <<x, center, steepness>> = <<0, 15000, 80>> -> 231
         [] <<x, center, steepness>> = <<0, 180000, -80>> -> 1000
         [] <<x, center, steepness>> = <<-1250, -2500, 3000>> -> 977
         [] <<x, center, steepness>> = <<-1250, 0, -3000>> -> 977

rangeScore(value, low, high, steepness) ==
  jsMin(1000, jsMul(jsMul(sigmoid(value, low, steepness),
                          sigmoid(value, high, 0 - steepness)), 4000))

\* MathEngine.stats(arr).mean of a non-empty array
RECURSIVE sum(_)
sum(arr) == IF arr = <<>> THEN 0 ELSE jsAdd(arr[1], sum(Tail(arr)))
mean(arr) == IF sum(arr) = NaN THEN NaN ELSE sum(arr) \div Len(arr)

RECURSIVE maxAbs(_)
maxAbs(arr) ==
  IF Len(arr) = 1 THEN jsAbs(arr[1]) ELSE jsMax(jsAbs(arr[1]), maxAbs(Tail(arr)))

\* the sub-score of each pipeline, as scoreResults computes it from a valid result
scoreTransferFn(tf) ==
  jsMin(1000, (IF tf.hasRolloff THEN 700 ELSE 0) + (IF tf.hasPhaseDelay THEN 150 ELSE 0)
                + (IF tf.delayPlausible THEN 150 ELSE 0))

scoreOneTremor(tr) ==
  LET s == jsMin(1000, jsDiv(tr.tremorRatio, ScoringConfig.humanTremorRatioMin * 3))
  IN IF jsGeq(tr.peakFrequency, 7000) /\ jsGeq(13000, tr.peakFrequency)
     THEN jsMin(1000, jsAdd(s, 200)) ELSE s

scoreTremor(tremor, accelTremor) ==
  jsMax(IF tremor.valid THEN scoreOneTremor(tremor) ELSE 0,
        IF accelTremor.valid THEN scoreOneTremor(accelTremor) ELSE 0)

scoreOneOverF(r) ==
  rangeScore(r.slope, ScoringConfig.human1fSlopeRange[1],
             ScoringConfig.human1fSlopeRange[2], 3000)

scoreSignalDepNoise(r) == jsMax(0, jsMin(1000, jsDiv(r.correlation, 400)))

scoreCrossAxis(ca, inputMethod) ==
  LET isTouch == inputMethod = "touch"
      idealMax == IF isTouch THEN 8000 ELSE 2000
      scoreDenom == IF isTouch THEN 1000 ELSE 300
  IN jsMul(jsMin(1000, jsDiv(ca.meanCoupling, scoreDenom)),
           IF jsLess(ca.meanCoupling, idealMax) THEN 1000 ELSE 500)

scorePulseResponse(pr) ==
  LET latScore == rangeScore(pr.latencyMean, ScoringConfig.humanLatencyRange[1],
                             ScoringConfig.humanLatencyRange[2], 30)
      varScore == rangeScore(pr.latencyStd, ScoringConfig.humanLatencySD[1],
                             ScoringConfig.humanLatencySD[2], 80)
  IN jsAdd(jsMul(latScore, 600), jsMul(varScore, 400))

scoreCogInterference(ci) ==
  LET meanAllInterference == mean(ci.flashEffects)
      maxInterference == maxAbs(ci.flashEffects)
      s1 == jsMin(1000, jsDiv(jsMax(0, meanAllInterference), 120))
      s2 == jsMax(s1, jsMin(1000, jsDiv(maxInterference, 250)))
      s3 == IF jsLess(20, ci.attentionEffect) THEN jsMin(1000, jsAdd(s2, 200)) ELSE s2
  IN IF ci.userAnswer = Null THEN s3
     ELSE LET s4 == jsMin(1000, jsAdd(s3, 100))
          IN IF jsGeq(1, jsAbs(ci.userAnswer - ci.correctAnswer))
             THEN jsMin(1000, jsAdd(s4, 150)) ELSE s4

scoreMinJerk(r) == jsMin(1000, jsMax(0, jsDiv(r.meanR2, 600)))

Pipelines ==
  <<"transferFn", "tremor", "oneOverF", "signalDepNoise", "crossAxis",
    "pulseResponse", "cogInterference", "minJerk">>

\* whether scoreResults takes the pipeline into account
Counted(results, p) ==
  IF p = "tremor" THEN results.tremor.valid \/ results.accelTremor.valid
  ELSE results[p].valid

SubScore(results, inputMethod, p) ==
  CASE p = "transferFn" -> scoreTransferFn(results.transferFn)
    [] p = "tremor" -> scoreTremor(results.tremor, results.accelTremor)
    [] p = "oneOverF" -> scoreOneOverF(results.oneOverF)
    [] p = "signalDepNoise" -> scoreSignalDepNoise(results.signalDepNoise)
    [] p = "crossAxis" -> scoreCrossAxis(results.crossAxis, inputMethod)
    [] p = "pulseResponse" -> scorePulseResponse(results.pulseResponse)
    [] p = "cogInterference" -> scoreCogInterference(results.cogInterference)
    [] p = "minJerk" -> scoreMinJerk(results.minJerk)

\* the verdict with thresholds that exclude their own value
Verdict_StrictThresholds(overall) ==
  IF jsLess(ScoringConfig.humanThreshold, overall)
  THEN [verdict |-> "BIOLOGICAL CONTROLLER DETECTED", verdictClass |-> "score-human"]
  ELSE IF jsLess(ScoringConfig.uncertainThreshold, overall)
       THEN [verdict |-> "UNCERTAIN - INCONCLUSIVE SIGNALS", verdictClass |-> "score-uncertain"]
       ELSE [verdict |-> "NON-BIOLOGICAL CONTROLLER SUSPECTED", verdictClass |-> "score-bot"]

\* the verdict and its class for an overall score
Verdict(overall) ==
  IF jsGeq(overall, ScoringConfig.humanThreshold)
  THEN [verdict |-> "BIOLOGICAL CONTROLLER DETECTED", verdictClass |-> "score-human"]
  ELSE IF jsGeq(overall, ScoringConfig.uncertainThreshold)
       THEN [verdict |-> "UNCERTAIN - INCONCLUSIVE SIGNALS", verdictClass |-> "score-uncertain"]
       ELSE [verdict |-> "NON-BIOLOGICAL CONTROLLER SUSPECTED", verdictClass |-> "score-bot"]

\* weightedSum and totalWeight after the first i pipelines; the products of
\* weightedSum are kept whole, in millionths, so that the sum is exact
jsTimes(a, b) == IF a = NaN \/ b = NaN THEN NaN ELSE a * b
jsOver(a, b) == IF a = NaN \/ b = NaN THEN NaN ELSE a \div b

RECURSIVE weightedSum(_, _, _)
weightedSum(results, inputMethod, i) ==
  IF i = 0 THEN 0
  ELSE LET p == Pipelines[i]
           before == weightedSum(results, inputMethod, i - 1)
       IN IF Counted(results, p)
          THEN jsAdd(before, jsTimes(SubScore(results, inputMethod, p),
                                     ScoringConfig.weights[p]))
          ELSE before

RECURSIVE totalWeight(_, _)
totalWeight(results, i) ==
  IF i = 0 THEN 0
  ELSE totalWeight(results, i - 1)
         + (IF Counted(results, Pipelines[i]) THEN ScoringConfig.weights[Pipelines[i]] ELSE 0)

scoreResults(results, inputMethod) ==
  LET n == Len(Pipelines)
      overall == IF totalWeight(results, n) > 0
                 THEN jsOver(weightedSum(results, inputMethod, n), totalWeight(results, n))
                 ELSE 0
  IN [overall |-> overall,
      scores |-> [p \in {q \in DOMAIN ScoringConfig.weights : Counted(results, q)} |->
                    [score |-> SubScore(results, inputMethod, p),
                     weight |-> ScoringConfig.weights[p]]],
      validCount |-> Cardinality({q \in DOMAIN ScoringConfig.weights : Counted(results, q)}),
      verdict |-> Verdict(overall).verdict,
      verdictClass |-> Verdict(overall).verdictClass]

\* analyze without the minimum of 50 tracking samples
analyze_NoMinimum(rawData) == scoreResults(rawData.results, rawData.inputMethod)

\* analyze: tracking is the samples reconstructTracking keeps, those at or
\* after phases.trackingStart; results is what the eight pipelines find in them
analyze(rawData) ==
  IF rawData.tracking < 50
  THEN [overall |-> 0, scores |-> <<>>, validCount |-> 0,
        verdict |-> "INSUFFICIENT DATA", verdictClass |-> "score-bot"]
  ELSE scoreResults(rawData.results, rawData.inputMethod)

\* ------------------------------------------------------------- result of analysis
\* what the receipt reads of the result of analysis
Result(o) == [overall |-> o, verdict |-> Verdict(o).verdict]

\* the receipt of handleVerify with the threshold of the embed endpoint
ReceiptStandalone_EmbedThreshold(cid, result) ==
  [challengeId |-> cid, mode |-> "undefined", verified |-> jsGeq(result.overall, 600),
   score |-> result.overall, verdict |-> result.verdict]

\* payload of the receipt signed by handleVerify
ReceiptStandalone(cid, result) ==
  [challengeId |-> cid, mode |-> "undefined", verified |-> jsGeq(result.overall, 650),
   score |-> result.overall, verdict |-> result.verdict]

\* payload of the receipt signed by handleEmbedVerify
ReceiptEmbed(cid, result) ==
  [challengeId |-> cid, mode |-> "embed", verified |-> jsGeq(result.overall, 600),
   score |-> result.overall, verdict |-> result.verdict]

ReceiptPayload(ep, cid, result) ==
  IF ep = "/api/embed/verify" THEN ReceiptEmbed(cid, result) ELSE ReceiptStandalone(cid, result)

\* the fields of the logged record that identify the verification
SessionRecord(ep, cid, result) ==
  [mode |-> IF ep = "/api/embed/verify" THEN "embed" ELSE "standalone",
   challengeId |-> cid]

\* the expiry is not tested
CheckErrorStandalone_NoExpiryTest(rec, t) ==
  IF rec.used THEN "challenge_already_used" ELSE ""

\* ------------------------------------------------------------- verify handlers
\* handleVerify: the used and expiry tests, "" when both pass
\* the used flag is not tested
CheckErrorStandalone_NoUsedTest(rec, t) ==
  IF t > rec.expiresAt THEN "challenge_expired" ELSE ""

CheckErrorStandalone(rec, t) ==
  IF rec.used THEN "challenge_already_used"
  ELSE IF t > rec.expiresAt THEN "challenge_expired"
  ELSE ""

\* handleEmbedVerify: the mode, used and expiry tests, "" when all pass
\* the used flag is tested before the mode
CheckErrorEmbed_UsedBeforeMode(rec, t) ==
  IF rec.used THEN "challenge_already_used"
  ELSE IF rec.mode # "embed" THEN "wrong_challenge_mode"
  ELSE IF t > rec.expiresAt THEN "challenge_expired"
  ELSE ""

CheckErrorEmbed(rec, t) ==
  IF rec.mode # "embed" THEN "wrong_challenge_mode"
  ELSE IF rec.used THEN "challenge_already_used"
  ELSE IF t > rec.expiresAt THEN "challenge_expired"
  ELSE ""

CheckError(ep, rec, t) ==
  IF ep = "/api/embed/verify" THEN CheckErrorEmbed(rec, t) ELSE CheckErrorStandalone(rec, t)

StatusOf(error) ==
  CASE error = "invalid_token" -> 401
    [] error = "challenge_not_found" -> 404
    [] error = "wrong_challenge_mode" -> 400
    [] error = "challenge_already_used" -> 409
    [] error = "challenge_expired" -> 410
    [] error = "insufficient_pointer_data" -> 400
    [] error = "missing_phases" -> 400
    [] error = "missing_canvas" -> 400
    [] error = "missing_elements" -> 400
    [] error = "analysis_failed" -> 500
    [] OTHER -> 200

Reply(error, store, cid, events, session, receipt) ==
  [status |-> StatusOf(error), error |-> error, store |-> store, cid |-> cid,
   events |-> events, session |-> session, receipt |-> receipt]

\* an append that fails makes the handler fail
Analysed_LogFailureFatal(ep, body, marked, id, o, appended) ==
  IF AnalysisThrows(ep, body, marked[id]) \/ ~appended
  THEN Reply("analysis_failed", marked, id, <<"used", "failed">>, <<>>, <<>>)
  ELSE Reply("", marked, id, <<"used", "session", "receipt">>,
             <<SessionRecord(ep, id, Result(o))>>,
             <<makeToken(ReceiptPayload(ep, id, Result(o)))>>)

\* the catch block answers 500 and also hands the challenge back
Analysed_ReleaseOnFailure(ep, body, marked, id, o, appended) ==
  IF AnalysisThrows(ep, body, marked[id])
  THEN Reply("analysis_failed", [marked EXCEPT ![id].used = FALSE], id,
             <<"used", "failed">>, <<>>, <<>>)
  ELSE Reply("", marked, id,
             <<"used">> \o (IF appended THEN <<"session">> ELSE <<>>) \o <<"receipt">>,
             IF appended THEN <<SessionRecord(ep, id, Result(o))>> ELSE <<>>,
             <<makeToken(ReceiptPayload(ep, id, Result(o)))>>)

\* a verify handler from its call of the analysis to its reply, on the store
\* marked that the flip of the used flag has left
Analysed(ep, body, marked, id, o, appended) ==
  IF AnalysisThrows(ep, body, marked[id])
  THEN Reply("analysis_failed", marked, id, <<"used", "failed">>, <<>>, <<>>)
  ELSE Reply("", marked, id,
             <<"used">> \o (IF appended THEN <<"session">> ELSE <<>>) \o <<"receipt">>,
             IF appended THEN <<SessionRecord(ep, id, Result(o))>> ELSE <<>>,
             <<makeToken(ReceiptPayload(ep, id, Result(o)))>>)

\* A verify handler from the resolution of its body read to its response, run
\* on the store as it is at time t.  o is the overall score analysis returns
\* when it returns; appended says whether the session line reached the file.
\* events lists, in order, what the run did to the challenge it looked up.
VerifyOutcome(ep, body, store, t, o, appended) ==
  LET tokenData == verifyToken(body.token) IN
  IF tokenData = <<>> THEN Reply("invalid_token", store, 0, <<>>, <<>>, <<>>)
  ELSE
  LET id == tokenData[1].challengeId IN
  IF id \notin DOMAIN store THEN Reply("challenge_not_found", store, 0, <<>>, <<>>, <<>>)
  ELSE
  LET challenge == store[id]
      err == CheckError(ep, challenge, t)
      expired == [store EXCEPT ![id] = MarkExpired(@)]
      marked == [store EXCEPT ![id] = MarkUsed(@, t)]
      shape == ShapeError(ep, body)
  IN
  IF err = "challenge_expired" THEN Reply(err, expired, id, <<"expired">>, <<>>, <<>>)
  ELSE IF err # "" THEN Reply(err, store, id, <<>>, <<>>, <<>>)
  ELSE IF shape # "" THEN Reply(shape, marked, id, <<"used">>, <<>>, <<>>)
  ELSE Analysed(ep, body, marked, id, o, appended)

\* ---------------------------------------------------------------- bookkeeping
NoResp ==
  [kind |-> "none", endpoint |-> "", status |-> 0, error |-> "",
   body |-> NoBody, challengeId |-> 0, receipt |-> <<>>]

Response(ep, body, status, error, cid, receipt) ==
  [kind |-> "verify", endpoint |-> ep, status |-> status, error |-> error,
   body |-> body, challengeId |-> cid, receipt |-> receipt]

Extend(log, cid, events) ==
  IF cid \in DOMAIN log THEN [log EXCEPT ![cid] = @ \o events] ELSE log

IdleReq ==
  [pc |-> "idle", endpoint |-> "", body |-> NoBody, tokenData |-> <<>>, cid |-> 0,
   result |-> Result(0), receipt |-> <<>>]

\* no response is being written: the event loop may start a callback
Quiet == lastResp = NoResp

\* --------------------------------------------------------------------- actions
\* no page has loaded the embed client
NoClient == [loaded |-> FALSE]

\* no function is under examination
NoCall == [fn |-> "none", arg |-> <<>>, out |-> <<>>]

\* the server once its module has been loaded
Started ==
  /\ now = START_TIME
  /\ challenges = <<>>
  /\ nextId = 1
  /\ issued = <<>>
  /\ req = [s \in Slots |-> IdleReq]
  /\ running = 0
  /\ sessions = <<>>
  /\ lastResp = NoResp
  /\ effects = <<>>

Init == Started /\ call = NoCall /\ client = NoClient

\* the wall clock advances between callbacks
Tick ==
  /\ running = 0
  /\ Quiet
  /\ now < MaxTime
  /\ now' = now + 1
  /\ UNCHANGED <<challenges, nextId, issued, req, running, sessions, lastResp, effects, call, client>>

\* challenges.set(challengeId, challenge) and the token returned with it
Insert(rec) ==
  /\ challenges' = (nextId :> rec) @@ challenges
  /\ issued' = (nextId :> makeToken(TokenPayload(rec.challengeId, rec.expiresAt))) @@ issued
  /\ effects' = (nextId :> <<"create">>) @@ effects
  /\ nextId' = nextId + 1
  /\ lastResp' = [NoResp EXCEPT !.kind = "challenge", !.status = 200,
                                !.challengeId = rec.challengeId]
  /\ UNCHANGED <<now, req, running, sessions, call, client>>

\* POST /api/challenge
handleChallenge ==
  /\ running = 0
  /\ Quiet
  /\ nextId <= MaxChallenges
  /\ Insert(generateChallenge(nextId, now))

\* POST /api/embed/challenge
handleEmbedChallenge ==
  /\ running = 0
  /\ Quiet
  /\ nextId <= MaxChallenges
  /\ Insert(generateEmbedChallenge(nextId, now))

\* setInterval(cleanupChallenges, CLEANUP_INTERVAL_MS): runs between callbacks
Sweep ==
  /\ running = 0
  /\ Quiet
  /\ challenges' = cleanupChallenges(challenges, now)
  /\ challenges' # challenges
  /\ effects' = [c \in DOMAIN effects |->
                   IF c \in DOMAIN challenges /\ c \notin DOMAIN challenges'
                   THEN Append(effects[c], "evict") ELSE effects[c]]
  /\ UNCHANGED <<now, nextId, issued, req, running, sessions, lastResp, call, client>>

\* a verify handler, from the end of its body read to its response
Verify(ep, body) ==
  /\ running = 0
  /\ Quiet
  /\ \E out \in {VerifyOutcome(ep, body, challenges, now, o, appended) :
                    o \in Overalls, appended \in BOOLEAN} :
     /\ challenges' = out.store
     /\ sessions' = sessions \o out.session
     /\ effects' = Extend(effects, out.cid, out.events)
     /\ lastResp' = Response(ep, body, out.status, out.error,
                             IF out.status = 200 THEN out.cid ELSE 0, out.receipt)
     /\ UNCHANGED <<now, nextId, issued, req, running>>
  /\ UNCHANGED <<call, client>>

\* POST /api/verify
handleVerify(body) == Verify("/api/verify", body)

\* POST /api/embed/verify
handleEmbedVerify(body) == Verify("/api/embed/verify", body)

\* bodies as they arrive: more than MAX_BODY_BYTES, text that is not JSON, no
\* text at all, and the JSON text null
RawBodies == {"over MAX_BODY_BYTES", "{", "", "null"}

\* readJsonBody: rejects with an error, or resolves with the parsed value;
\* the empty text resolves with {}, a body without any field
readJsonBody(raw) ==
  CASE raw = "over MAX_BODY_BYTES" ->
         [rejected |-> TRUE, error |-> "body_too_large", isNull |-> FALSE, value |-> NoBody]
    [] raw = "{" ->
         [rejected |-> TRUE, error |-> "invalid_json", isNull |-> FALSE, value |-> NoBody]
    [] raw = "" ->
         [rejected |-> FALSE, error |-> "", isNull |-> FALSE, value |-> NoBody]
    [] raw = "null" ->
         [rejected |-> FALSE, error |-> "", isNull |-> TRUE, value |-> NoBody]

\* the start of a verify handler on such a body.  A rejected read is answered
\* 400 with the message of the error.  On null, body.token throws a TypeError
\* that nothing catches: the handler ends without a response (status 0).
\* Otherwise the handler goes on as for every body.
VerifyRaw(ep, raw) ==
  /\ running = 0
  /\ Quiet
  /\ LET read == readJsonBody(raw)
         out == VerifyOutcome(ep, read.value, challenges, now, 0, TRUE)
     IN IF read.rejected
        THEN /\ lastResp' = [Response(ep, NoBody, 400, read.error, 0, <<>>) EXCEPT !.kind = "raw"]
             /\ UNCHANGED <<challenges, sessions, effects>>
        ELSE IF read.isNull
        THEN /\ lastResp' = [Response(ep, NoBody, 0, "TypeError", 0, <<>>) EXCEPT !.kind = "raw"]
             /\ UNCHANGED <<challenges, sessions, effects>>
        ELSE /\ lastResp' = [Response(ep, read.value, out.status, out.error, 0, out.receipt)
                               EXCEPT !.kind = "raw"]
             /\ challenges' = out.store
             /\ sessions' = sessions \o out.session
             /\ effects' = Extend(effects, out.cid, out.events)
  /\ UNCHANGED <<now, nextId, issued, req, running, call, client>>

\* the receipts handleVerify has signed: one for each challenge whose run came
\* to the receipt, with the score that run had (handleEmbedVerify fails before
\* it signs one)
Receipts ==
  {makeToken(ReceiptStandalone(c, Result(o))) :
     c \in {d \in DOMAIN effects :
              \E i \in 1 .. Len(effects[d]) : effects[d][i] = "receipt"},
     o \in Overalls}

\* a verify handler on an otherwise complete body whose token is a receipt
VerifyReceipt(ep, receipt) ==
  /\ running = 0
  /\ Quiet
  /\ LET body == Body(receipt, 50, TRUE, TRUE, TRUE, TRUE) IN
     \E out \in {VerifyOutcome(ep, body, challenges, now, o, appended) :
                    o \in Overalls, appended \in BOOLEAN} :
       /\ challenges' = out.store
       /\ sessions' = sessions \o out.session
       /\ effects' = Extend(effects, out.cid, out.events)
       /\ lastResp' = [Response(ep, body, out.status, out.error,
                                IF out.status = 200 THEN out.cid ELSE 0, out.receipt)
                         EXCEPT !.kind = "receipt"]
  /\ UNCHANGED <<now, nextId, issued, req, running, call, client>>

\* res.end(): the response has left; the handler returns to the event loop
Flush ==
  /\ lastResp # NoResp
  /\ lastResp' = NoResp
  /\ UNCHANGED <<now, challenges, nextId, issued, req, running, sessions, effects, call, client>>

Next ==
  \/ Tick
  \/ handleChallenge
  \/ handleEmbedChallenge
  \/ Sweep
  \/ \E body \in Bodies : handleVerify(body)
  \/ \E body \in Bodies : handleEmbedVerify(body)
  \/ \E ep \in Endpoints, raw \in RawBodies : VerifyRaw(ep, raw)
  \/ \E ep \in Endpoints : \E receipt \in Receipts : VerifyReceipt(ep, receipt)
  \/ Flush

Spec == Init /\ [][Next]_vars

\* ------------------------------------------------- the handlers, step by step
\* the handler also awaits between its checks and its write of the used flag
SuspendsAt_AwaitBeforeMark(pc) == pc \in {"read", "mark"}

\* the handler also awaits the append to the session log
SuspendsAt_AwaitLog(pc) == pc \in {"read", "log"}

\* the positions at which a verify handler awaits: the body read alone
SuspendsAt(pc) == pc = "read"

\* slot s may take its next step: it owns the thread, or the event loop is idle
\* and s is parked at an await
CanStep(s) ==
  \/ running = s
  \/ running = 0 /\ Quiet /\ SuspendsAt(req[s].pc)

\* who owns the thread once s has moved to position pc
Yield(s, pc) == IF SuspendsAt(pc) THEN 0 ELSE s

Goto(s, pc) ==
  /\ req' = [req EXCEPT ![s].pc = pc]
  /\ running' = Yield(s, pc)
  /\ UNCHANGED lastResp

\* json(res, status, ...) followed by return: the handler is over
Respond(s, error, receipt) ==
  /\ lastResp' = Response(req[s].endpoint, req[s].body, StatusOf(error), error,
                          IF error = "" THEN req[s].cid ELSE 0, receipt)
  /\ req' = [req EXCEPT ![s] = IdleReq]
  /\ running' = 0

\* the router dispatches a POST to a verify handler, which awaits the body
Arrive(s, ep) ==
  /\ running = 0
  /\ Quiet
  /\ req[s].pc = "idle"
  /\ \A r \in Slots : r < s => req[r].pc # "idle"
  /\ req' = [req EXCEPT ![s] = [IdleReq EXCEPT !.pc = "read", !.endpoint = ep]]
  /\ running' = Yield(s, "read")
  /\ UNCHANGED <<now, challenges, nextId, issued, sessions, lastResp, effects, call, client>>

\* readJsonBody resolves with the parsed body
BodyRead(s, body) ==
  /\ req[s].pc = "read"
  /\ CanStep(s)
  /\ req' = [req EXCEPT ![s].pc = "token", ![s].body = body]
  /\ running' = Yield(s, "token")
  /\ UNCHANGED <<now, challenges, nextId, issued, sessions, lastResp, effects, call, client>>

\* const tokenData = verifyToken(body.token); if (!tokenData) 401
StepToken(s) ==
  /\ req[s].pc = "token"
  /\ CanStep(s)
  /\ LET tokenData == verifyToken(req[s].body.token)
     IN IF tokenData = <<>>
        THEN Respond(s, "invalid_token", <<>>)
        ELSE /\ req' = [req EXCEPT ![s].pc = "lookup", ![s].tokenData = tokenData]
             /\ running' = Yield(s, "lookup")
             /\ UNCHANGED lastResp
  /\ UNCHANGED <<now, challenges, nextId, issued, sessions, effects, call, client>>

\* const challenge = challenges.get(tokenData.challengeId); if (!challenge) 404
StepLookup(s) ==
  /\ req[s].pc = "lookup"
  /\ CanStep(s)
  /\ LET id == req[s].tokenData[1].challengeId
     IN IF id \notin DOMAIN challenges
        THEN Respond(s, "challenge_not_found", <<>>)
        ELSE /\ req' = [req EXCEPT ![s].pc = "checks", ![s].cid = id]
             /\ running' = Yield(s, "checks")
             /\ UNCHANGED lastResp
  /\ UNCHANGED <<now, challenges, nextId, issued, sessions, effects, call, client>>

\* the mode (embed endpoint), used and expiry tests; the expiry branch sets used
StepChecks(s) ==
  /\ req[s].pc = "checks"
  /\ CanStep(s)
  /\ req[s].cid \in DOMAIN challenges
  /\ LET cid == req[s].cid
         err == CheckError(req[s].endpoint, challenges[cid], now)
     IN IF err = "challenge_expired"
        THEN /\ challenges' = [challenges EXCEPT ![cid] = MarkExpired(@)]
             /\ effects' = Extend(effects, cid, <<"expired">>)
             /\ Respond(s, err, <<>>)
        ELSE IF err # ""
        THEN /\ Respond(s, err, <<>>)
             /\ UNCHANGED <<challenges, effects>>
        ELSE /\ Goto(s, "mark")
             /\ UNCHANGED <<challenges, effects>>
  /\ UNCHANGED <<now, nextId, issued, sessions, call, client>>

\* challenge.used = true; challenge.usedAt = Date.now()
StepMarkUsed(s) ==
  /\ req[s].pc = "mark"
  /\ CanStep(s)
  /\ req[s].cid \in DOMAIN challenges
  /\ challenges' = [challenges EXCEPT ![req[s].cid] = MarkUsed(@, now)]
  /\ effects' = Extend(effects, req[s].cid, <<"used">>)
  /\ Goto(s, "shape")
  /\ UNCHANGED <<now, nextId, issued, sessions, call, client>>

\* Validate raw data shape
StepShape(s) ==
  /\ req[s].pc = "shape"
  /\ CanStep(s)
  /\ LET err == ShapeError(req[s].endpoint, req[s].body)
     IN IF err # "" THEN Respond(s, err, <<>>) ELSE Goto(s, "analyze")
  /\ UNCHANGED <<now, challenges, nextId, issued, sessions, effects, call, client>>

\* try { result = analyze(rawData, challenge) } catch { 500 analysis_failed }
StepAnalyze(s, o) ==
  /\ req[s].pc = "analyze"
  /\ CanStep(s)
  /\ req[s].cid \in DOMAIN challenges
  /\ IF AnalysisThrows(req[s].endpoint, req[s].body, challenges[req[s].cid])
     THEN /\ Respond(s, "analysis_failed", <<>>)
          /\ effects' = Extend(effects, req[s].cid, <<"failed">>)
     ELSE /\ req' = [req EXCEPT ![s].pc = "receipt", ![s].result = Result(o)]
          /\ running' = Yield(s, "receipt")
          /\ UNCHANGED <<lastResp, effects>>
  /\ UNCHANGED <<now, challenges, nextId, issued, sessions, call, client>>

\* const receipt = makeToken({...})
StepReceipt(s) ==
  /\ req[s].pc = "receipt"
  /\ CanStep(s)
  /\ req' = [req EXCEPT ![s].pc = "log",
                        ![s].receipt = <<makeToken(ReceiptPayload(req[s].endpoint, req[s].cid, req[s].result))>>]
  /\ running' = Yield(s, "log")
  /\ UNCHANGED <<now, challenges, nextId, issued, sessions, lastResp, effects, call, client>>

\* logSession(record): appendFileSync, whose failure is caught and logged
StepLog(s, appended) ==
  /\ req[s].pc = "log"
  /\ CanStep(s)
  /\ IF appended
     THEN /\ sessions' = Append(sessions, SessionRecord(req[s].endpoint, req[s].cid, req[s].result))
          /\ effects' = Extend(effects, req[s].cid, <<"session">>)
     ELSE UNCHANGED <<sessions, effects>>
  /\ Goto(s, "respond")
  /\ UNCHANGED <<now, challenges, nextId, issued, call, client>>

\* json(res, 200, { ok: true, ..., receipt })
StepRespond(s) ==
  /\ req[s].pc = "respond"
  /\ CanStep(s)
  /\ Respond(s, "", req[s].receipt)
  /\ effects' = Extend(effects, req[s].cid, <<"receipt">>)
  /\ UNCHANGED <<now, challenges, nextId, issued, sessions, call, client>>

NextSteps ==
  \/ Tick
  \/ handleChallenge
  \/ handleEmbedChallenge
  \/ Sweep
  \/ Flush
  \/ \E s \in Slots, ep \in Endpoints : Arrive(s, ep)
  \/ \E s \in Slots, body \in Bodies : BodyRead(s, body)
  \/ \E s \in Slots : StepToken(s)
  \/ \E s \in Slots : StepLookup(s)
  \/ \E s \in Slots : StepChecks(s)
  \/ \E s \in Slots : StepMarkUsed(s)
  \/ \E s \in Slots : StepShape(s)
  \/ \E s \in Slots, o \in Overalls : StepAnalyze(s, o)
  \/ \E s \in Slots : StepReceipt(s)
  \/ \E s \in Slots, appended \in BOOLEAN : StepLog(s, appended)
  \/ \E s \in Slots : StepRespond(s)

SpecSteps == Init /\ [][NextSteps]_vars

\* ----------------------------------------- functions examined on their own
\* a call of fn on arg; out is <<>> until the call has returned, then <<result>>
Call(fn, arg) == [fn |-> fn, arg |-> arg, out |-> <<>>]

Return(fn, result) ==
  /\ call.fn = fn
  /\ call.out = <<>>
  /\ call' = [call EXCEPT !.out = <<result>>]
  /\ UNCHANGED <<now, challenges, nextId, issued, req, running, sessions, lastResp, effects, client>>

\* payloads the server signs: of a challenge token and of a receipt; expiresAt
\* and score are numbers, NaN among them
Payloads ==
  {TokenPayload(c, e) : c \in 1 .. 2, e \in {START_TIME + CHALLENGE_TTL_MS, NaN}}
    \cup {ReceiptStandalone(c, Result(o)) : c \in 1 .. 2, o \in Overalls \cup {NaN}}
    \cup {ReceiptEmbed(c, Result(o)) : c \in 1 .. 2, o \in Overalls \cup {NaN}}

\* what a client can make of a token without the secret
Tampered(tok) ==
  {[tok EXCEPT !.isString = FALSE],
   [tok EXCEPT !.parts = 1],
   [tok EXCEPT !.parts = 3],
   ForgedToken(tok),
   [tok EXCEPT !.sig = SubSeq(tok.sig, 1, Len(tok.sig) - 1)],
   [tok EXCEPT !.sig = Append(tok.sig, "A")]}
    \cup {[tok EXCEPT !.payload = makeToken(p).payload] :
            p \in {q \in Payloads : makeToken(q) # tok}}

TokenStrings == UNION {{makeToken(p)} \cup Tampered(makeToken(p)) : p \in Payloads}

\* ---- the cognitive task of a standalone challenge and what the client gets
cogTargetColors == <<"#ff4444", "#4488ff", "#00e87b">>
cogTargetColorNames == <<"RED", "BLUE", "GREEN">>
cogFlashCount == 8

\* the Fisher-Yates loop: for i from the last index down, swap colors[i] with
\* colors[j], j drawn in 1 .. i
RECURSIVE shuffle(_, _, _)
shuffle(colors, swaps, i) ==
  IF i <= 1 THEN colors
  ELSE shuffle([colors EXCEPT ![i] = colors[swaps[i]], ![swaps[i]] = colors[i]],
               swaps, i - 1)

\* the later flashes draw among all three colors
cogTask_AnyColor(colorIdx, targetCount, picks, swaps) ==
  LET targetColor == cogTargetColors[colorIdx]
      unshuffled == [i \in 1 .. cogFlashCount |->
                       IF i <= targetCount THEN targetColor ELSE cogTargetColors[picks[i]]]
      colors == shuffle(unshuffled, swaps, cogFlashCount)
  IN [targetColor |-> targetColor,
      targetColorName |-> cogTargetColorNames[colorIdx],
      targetCount |-> targetCount,
      flashDuration |-> 400,
      flashes |-> [i \in 1 .. cogFlashCount |->
                     [color |-> colors[i], isTarget |-> colors[i] = targetColor]]]

\* cogTask of generateChallenge for the random draws colorIdx (1 .. 3),
\* targetCount (2 .. 5), picks (the distractor of each later flash) and swaps
cogTask(colorIdx, targetCount, picks, swaps) ==
  LET targetColor == cogTargetColors[colorIdx]
      distractors == SelectSeq(cogTargetColors, LAMBDA c : c # targetColor)
      unshuffled == [i \in 1 .. cogFlashCount |->
                       IF i <= targetCount THEN targetColor ELSE distractors[picks[i]]]
      colors == shuffle(unshuffled, swaps, cogFlashCount)
  IN [targetColor |-> targetColor,
      targetColorName |-> cogTargetColorNames[colorIdx],
      targetCount |-> targetCount,
      flashDuration |-> 400,
      flashes |-> [i \in 1 .. cogFlashCount |->
                     [color |-> colors[i], isTarget |-> colors[i] = targetColor]]]

\* draws of Math.random() examined: which distractor, which swap partner
PickDraws ==
  {[i \in 1 .. cogFlashCount |-> 1], [i \in 1 .. cogFlashCount |-> 1 + (i % 2)]}

SwapDraws ==
  {[i \in 1 .. cogFlashCount |-> i],
   [i \in 1 .. cogFlashCount |-> 1],
   [i \in 1 .. cogFlashCount |-> IF i > 1 THEN i - 1 ELSE 1]}

\* the record generateChallenge stores, with its cognitive task
StandaloneChallenges ==
  {[challengeId |-> 1, cogTask |-> cogTask(colorIdx, targetCount, picks, swaps)] :
     colorIdx \in 1 .. 3, targetCount \in 2 .. 5, picks \in PickDraws, swaps \in SwapDraws}

\* the object POST /api/challenge returns next to the token
clientParams(challenge) ==
  [challengeId |-> challenge.challengeId,
   cogTask |-> [targetColor |-> challenge.cogTask.targetColor,
                targetColorName |-> challenge.cogTask.targetColorName,
                flashDuration |-> challenge.cogTask.flashDuration,
                flashes |-> challenge.cogTask.flashes]]

\* ---- admin routes
\* strings of the admin token alphabet; <<>> is the empty string
AdminStrings == {<<>>, <<1, 2>>, <<1, 1>>, <<1, 2, 1>>}

\* process.env.CLNP_ADMIN_TOKEN || null: unset and empty both give null, <<>> here
AdminConfigs == {<<>>, <<1, 2>>}

\* the Authorization header: absent, or a scheme ("Bearer " or another) and the rest
AuthHeaders ==
  {[present |-> FALSE, bearer |-> FALSE, rest |-> <<>>]}
    \cup {[present |-> TRUE, bearer |-> b, rest |-> t] : b \in BOOLEAN, t \in AdminStrings}

\* the ?token= query parameter: absent (get gives null) or a string
QueryTokens ==
  {[present |-> FALSE, value |-> <<>>]}
    \cup {[present |-> TRUE, value |-> t] : t \in AdminStrings}

AdminRoutes == {"/admin", "/api/admin/stats", "/api/admin/sessions", "/api/admin/session/:id"}

\* what follows /api/admin/session/ in the path: nothing, the id of a logged
\* session, or another id; the other routes have no such part
SessionIds(route) ==
  IF route = "/api/admin/session/:id" THEN {"", "logged", "other"} ELSE {""}

AdminRequests ==
  {x \in [route : AdminRoutes, id : {"", "logged", "other"}, config : AdminConfigs,
          authorization : AuthHeaders, token : QueryTokens] :
     x.id \in SessionIds(x.route)}

\* the query parameter is read first, the header only without it
authenticateAdmin_QueryFirst(config, authorization, query) ==
  IF config = <<>> THEN [ok |-> FALSE, status |-> 503, error |-> "admin_not_configured"]
  ELSE LET fromQuery == IF query.present THEN query.value ELSE <<>>
           token == IF fromQuery # <<>> THEN fromQuery
                    ELSE IF authorization.present /\ authorization.bearer
                         THEN authorization.rest ELSE <<>>
       IN IF token = <<>> THEN [ok |-> FALSE, status |-> 401, error |-> "missing_token"]
          ELSE IF Len(token) # Len(config) \/ token # config
               THEN [ok |-> FALSE, status |-> 401, error |-> "invalid_token"]
               ELSE [ok |-> TRUE, status |-> 200, error |-> ""]

authenticateAdmin(config, authorization, query) ==
  IF config = <<>> THEN [ok |-> FALSE, status |-> 503, error |-> "admin_not_configured"]
  ELSE LET fromHeader == IF authorization.present /\ authorization.bearer
                         THEN authorization.rest ELSE <<>>
           token == IF fromHeader # <<>> THEN fromHeader
                    ELSE IF query.present THEN query.value ELSE <<>>
       IN IF token = <<>> THEN [ok |-> FALSE, status |-> 401, error |-> "missing_token"]
          ELSE IF Len(token) # Len(config) \/ token # config
               THEN [ok |-> FALSE, status |-> 401, error |-> "invalid_token"]
               ELSE [ok |-> TRUE, status |-> 200, error |-> ""]

\* what the router answers on an admin route: the error of authenticateAdmin,
\* or else the page or the session data of the route
adminRoute(request) ==
  LET auth == authenticateAdmin(request.config, request.authorization, request.token)
  IN IF ~auth.ok
     THEN [status |-> auth.status, error |-> auth.error, data |-> "none"]
     ELSE CASE request.route = "/admin" ->
                 [status |-> 200, error |-> "", data |-> "clnp-admin.html"]
            [] request.route = "/api/admin/stats" ->
                 [status |-> 200, error |-> "", data |-> "stats"]
            [] request.route = "/api/admin/sessions" ->
                 [status |-> 200, error |-> "", data |-> "sessions"]
            [] OTHER ->
                 IF request.id = ""
                 THEN [status |-> 400, error |-> "missing_session_id", data |-> "none"]
                 ELSE IF request.id # "logged"
                      THEN [status |-> 404, error |-> "session_not_found", data |-> "none"]
                      ELSE [status |-> 200, error |-> "", data |-> "session"]

\* what each pipeline can report: no valid result, or the features scoring reads
TransferFnResults ==
  {[valid |-> FALSE, hasRolloff |-> FALSE, hasPhaseDelay |-> FALSE, delayPlausible |-> FALSE]}
    \cup {[valid |-> TRUE, hasRolloff |-> r, hasPhaseDelay |-> ~r, delayPlausible |-> TRUE] :
            r \in BOOLEAN}

TremorResults ==
  {[valid |-> FALSE, tremorRatio |-> 0, peakFrequency |-> 0],
   [valid |-> TRUE, tremorRatio |-> 9, peakFrequency |-> 10000]}

AccelTremorResults ==
  {[valid |-> FALSE, tremorRatio |-> 0, peakFrequency |-> 0],
   [valid |-> TRUE, tremorRatio |-> 30, peakFrequency |-> 10000]}

OneOverFResults ==
  {[valid |-> FALSE, slope |-> 0]}
    \cup {[valid |-> TRUE, slope |-> s] : s \in {-1250}}

\* the correlations that alone put overall at 0, 0.34, 0.35, 0.64, 0.65 and 1
SignalDepNoiseResults ==
  {[valid |-> FALSE, correlation |-> 0]}
    \cup {[valid |-> TRUE, correlation |-> c] : c \in {-100, 136, 140, 256, 260, 500}}

\* meanCoupling is the mean of |dy / dx| over the pulse windows: NaN when dx
\* and dy of a window are both infinite, which pointer coordinates near the
\* largest double make them
CrossAxisResults ==
  {[valid |-> FALSE, meanCoupling |-> 0]}
    \cup {[valid |-> TRUE, meanCoupling |-> m] : m \in {150, 3000, NaN}}

\* latencies in ms; mean and deviation are 0 when no pulse response was detected
PulseResponseResults ==
  {[valid |-> FALSE, latencyMean |-> 0, latencyStd |-> 0],
   [valid |-> TRUE, latencyMean |-> 0, latencyStd |-> 0],
   [valid |-> TRUE, latencyMean |-> 250000, latencyStd |-> 60000]}

CogInterferenceResults ==
  {[valid |-> FALSE, flashEffects |-> <<0, 0>>, attentionEffect |-> 0,
    userAnswer |-> Null, correctAnswer |-> 2],
   [valid |-> TRUE, flashEffects |-> <<300, -100, 40>>, attentionEffect |-> -10,
    userAnswer |-> 3, correctAnswer |-> 2]}

MinJerkResults ==
  {[valid |-> FALSE, meanR2 |-> 0], [valid |-> TRUE, meanR2 |-> 300]}

\* the numbers of tracking samples that separate the pipelines' minimum lengths
TrackingLengths == {49, 50, 128}

ResultSets ==
  [transferFn |-> TransferFnResults, tremor |-> TremorResults,
   accelTremor |-> AccelTremorResults, oneOverF |-> OneOverFResults,
   signalDepNoise |-> SignalDepNoiseResults, crossAxis |-> CrossAxisResults,
   pulseResponse |-> PulseResponseResults,
   cogInterference |-> CogInterferenceResults, minJerk |-> MinJerkResults]

\* the result of a pipeline that had too little to work on
Invalid(p) == CHOOSE r \in ResultSets[p] : ~r.valid

NoResults == [p \in DOMAIN ResultSets |-> Invalid(p)]

\* a valid result of every pipeline
TypicalResults ==
  [transferFn |-> [valid |-> TRUE, hasRolloff |-> TRUE, hasPhaseDelay |-> FALSE,
                   delayPlausible |-> TRUE],
   tremor |-> [valid |-> TRUE, tremorRatio |-> 9, peakFrequency |-> 10000],
   accelTremor |-> [valid |-> TRUE, tremorRatio |-> 30, peakFrequency |-> 10000],
   oneOverF |-> [valid |-> TRUE, slope |-> -1250],
   signalDepNoise |-> [valid |-> TRUE, correlation |-> 260],
   crossAxis |-> [valid |-> TRUE, meanCoupling |-> 150],
   pulseResponse |-> [valid |-> TRUE, latencyMean |-> 250000, latencyStd |-> 60000],
   cogInterference |-> [valid |-> TRUE, flashEffects |-> <<300, -100, 40>>,
                        attentionEffect |-> -10, userAnswer |-> 3, correctAnswer |-> 2],
   minJerk |-> [valid |-> TRUE, meanR2 |-> 300]]

\* the results examined together: every set of valid pipelines, with the
\* results above, and every result of one pipeline next to no other valid
\* result and next to all of them
CombinedResults ==
  {[p \in DOMAIN ResultSets |-> IF p \in V THEN TypicalResults[p] ELSE Invalid(p)] :
     V \in SUBSET DOMAIN ResultSets}
    \cup UNION {{[base EXCEPT ![p] = v] : base \in {NoResults, TypicalResults},
                                           v \in ResultSets[p]} :
                 p \in DOMAIN ResultSets}

\* those the pipelines can report on a tracking of the length: transferFn and
\* tremor need 64 samples, oneOverF 128, signalDepNoise 100, and minJerk a
\* valid pulseResponse
ResultsOf(tracking) ==
  {r \in CombinedResults :
     /\ tracking < 64 => ~r.transferFn.valid /\ ~r.tremor.valid
     /\ tracking < 128 => ~r.oneOverF.valid
     /\ tracking < 100 => ~r.signalDepNoise.valid
     /\ r.minJerk.valid => r.pulseResponse.valid}

\* below 50 samples no pipeline runs
RawData ==
  {[tracking |-> 49, results |-> NoResults, inputMethod |-> "mouse"]}
    \cup UNION {{[tracking |-> n, results |-> r, inputMethod |-> m] :
                    r \in ResultsOf(n), m \in {"mouse", "touch"}} :
                 n \in TrackingLengths \ {49}}

\* ---- the pulse schedule of a standalone challenge
pulseMinGap == 2800

\* Math.floor(randRange(4, 8))
PulseCounts == 4 .. 7

\* Math.round(randRange(18000, 22000)): the ends and a duration between
TrackingDurations == {18000, 20001, 22000}

\* Math.random() in thousandths: its least value and one next to its upper end
RandomDraws == {0, 999}

\* Math.round of the fraction num / den, den > 0
round(num, den) == (2 * num + den) \div (2 * den)

\* the pulses with a jitter over the whole bucket
pulses_FullJitter(pulseCount, trackingDuration, draws) ==
  LET available == trackingDuration - pulseMinGap
  IN [n \in 1 .. pulseCount |->
        [offsetMs |-> round(pulseMinGap * pulseCount * 5000
                              + available * (n - 1) * 5000
                              + draws[n] * available * 5,
                            pulseCount * 5000),
         ampX |-> 22 * (IF (n - 1) % 3 = 2 THEN -1 ELSE 1),
         ampY |-> 0]]

\* the pulses generateChallenge pushes; draws[i + 1] is the Math.random() of
\* pulse i in thousandths, so that its share 0.6 * draw / 1000 of a bucket is
\* 3 * draw / 5000; the amplitude draw is the middle of its range
pulses(pulseCount, trackingDuration, draws) ==
  LET available == trackingDuration - pulseMinGap
  IN [n \in 1 .. pulseCount |->
        LET i == n - 1
            dir == IF i % 3 = 2 THEN -1 ELSE 1
        IN [offsetMs |-> round(pulseMinGap * pulseCount * 5000
                                 + available * i * 5000
                                 + draws[n] * available * 3,
                               pulseCount * 5000),
            ampX |-> 22 * dir,
            ampY |-> 0]]

PulseInputs ==
  UNION {{[pulseCount |-> c, trackingDuration |-> d, draws |-> r] :
            d \in TrackingDurations, r \in [1 .. c -> RandomDraws]} : c \in PulseCounts}

\* ---- the perturbation of a challenge: its pulses and their two durations
pulseReturnDuration == 200
embedPulseReturnDuration == 150
pulseSpacing == 2000

\* Math.round(randRange(500, 700)) and Math.round(randRange(400, 600)): the ends
HoldDurations == {500, 700}
EmbedHoldDurations == {400, 600}

\* Math.floor(randRange(4, 6))
EmbedPulseCounts == 4 .. 5

\* Math.round(randRange(-200, 200)): the ends and the middle
EmbedJitters == {-200, 0, 200}

\* challenge.perturbation of generateChallenge, the probes left aside
perturbation(pulseCount, trackingDuration, draws, hold) ==
  [pulses |-> pulses(pulseCount, trackingDuration, draws),
   pulseHoldDuration |-> hold,
   pulseReturnDuration |-> pulseReturnDuration]

\* the pulses generateEmbedChallenge pushes, jitters[i + 1] being the rounded
\* draw of pulse i; amplitudes are in hundredths of a pixel, the draw the
\* middle of its range
embedPulses(pulseCount, jitters) ==
  [n \in 1 .. pulseCount |->
     LET i == n - 1
         dir == IF i % 3 = 2 THEN -1 ELSE 1
     IN [hoverTimeMs |-> pulseSpacing * (i + 1) + jitters[n],
         ampX |-> 150 * dir,
         ampY |-> 0]]

\* challenge.perturbation of generateEmbedChallenge, the probes left aside
embedPerturbation(pulseCount, jitters, hold) ==
  [pulses |-> embedPulses(pulseCount, jitters),
   pulseHoldDuration |-> hold,
   pulseReturnDuration |-> embedPulseReturnDuration]

PerturbationInputs ==
  {[mode |-> "standalone", pulseCount |-> p.pulseCount,
    trackingDuration |-> p.trackingDuration, draws |-> p.draws, hold |-> h] :
     p \in PulseInputs, h \in HoldDurations}
  \cup
  UNION {{[mode |-> "embed", pulseCount |-> c, trackingDuration |-> 0,
           draws |-> j, hold |-> h] :
            j \in [1 .. c -> EmbedJitters], h \in EmbedHoldDurations} :
         c \in EmbedPulseCounts}

\* ---- the probes of a challenge; frequencies are in tenths of a hertz
FREQ_POOL == <<3, 5, 7, 9, 11, 15, 18, 21, 25, 28, 33, 37, 43, 51, 57, 63, 71, 79>>

Range(seq) == {seq[i] : i \in DOMAIN seq}

\* the head of [...arr].sort(() => Math.random() - 0.5): the comparator is not
\* consistent, so the order is whatever the sort makes of its answers, a
\* rearrangement of arr; of each five members of arr one order is taken here,
\* the third, fifth, first, fourth and second smallest
RECURSIVE Ascending(_)
Ascending(S) ==
  IF S = {} THEN <<>>
  ELSE LET m == CHOOSE x \in S : \A y \in S : x <= y
       IN <<m>> \o Ascending(S \ {m})

\* the subsets of S that have k members
RECURSIVE Combinations(_, _)
Combinations(S, k) ==
  IF k = 0 THEN {{}}
  ELSE IF S = {} THEN {}
  ELSE LET m == CHOOSE x \in S : \A y \in S : x <= y
       IN {T \cup {m} : T \in Combinations(S \ {m}, k - 1)}
            \cup Combinations(S \ {m}, k)

ShuffledHeads(arr, n) ==
  {LET a == Ascending(S) IN <<a[3], a[5], a[1], a[4], a[2]>> :
     S \in Combinations(Range(arr), n)}

\* shuffled.slice(0, n)
pickRandom(shuffled, n) == SubSeq(shuffled, 1, n)

\* a sort that leaves the order as it is
sortAscending_Unsorted(seq) == seq

\* .sort((a, b) => a - b)
RECURSIVE sortAscending(_)
sortAscending(seq) ==
  IF seq = <<>> THEN <<>>
  ELSE LET rest == sortAscending(Tail(seq))
           below == SelectSeq(rest, LAMBDA x : x - seq[1] < 0)
           above == SelectSeq(rest, LAMBDA x : ~(x - seq[1] < 0))
       IN below \o <<seq[1]>> \o above

\* the probes of generateChallenge and of generateEmbedChallenge, with the
\* amplitude and phase draws at the lower end of their ranges (amplitudes in
\* thousandths of a pixel)
probes(mode, shuffled) ==
  LET probeFreqsPicked == sortAscending(pickRandom(shuffled, 5))
  IN [i \in DOMAIN probeFreqsPicked |->
        [freq |-> probeFreqsPicked[i],
         ampX |-> IF mode = "embed" THEN 150 ELSE 3000,
         ampY |-> IF mode = "embed" THEN 50 ELSE 1000]]

ProbeInputs ==
  {[mode |-> m, shuffled |-> h] : m \in {"standalone", "embed"}, h \in ShuffledHeads(FREQ_POOL, 5)}

\* the draws of the cognitive task: colorIdx, targetCount, picks and swaps
CogDraws ==
  {[colorIdx |-> c, targetCount |-> n, picks |-> p, swaps |-> s] :
     c \in 1 .. 3, n \in 2 .. 5, p \in PickDraws, s \in SwapDraws}

\* ---- target reconstruction (analysis.js).  Times are in milliseconds,
\* positions and amplitudes in thousandths of a pixel, angles in thousandths
\* of a turn, sines in thousandths.

\* Math.sin of an angle given in thousandths of a turn, by Bhaskara's rational
\* formula on each half turn (within 0.002 of the sine; exact at the multiples
\* of a quarter turn)
sin(mturn) ==
  LET m == mturn % 1000
      h == IF m <= 500 THEN m ELSE m - 500
      b == (16000 * h * (500 - h)) \div (1250000 - 4 * h * (500 - h))
  IN IF m <= 500 THEN b ELSE 0 - b

\* amp * Math.sin(angle)
timesSin(amp, mturn) ==
  LET s == sin(mturn)
  IN IF s >= 0 THEN (amp * s) \div 1000 ELSE 0 - ((amp * (0 - s)) \div 1000)

\* the multi-sine component of the probes at elapsed milliseconds after trackingStart;
\* probe.freq is in tenths of a hertz
RECURSIVE multiSine(_, _)
multiSine(probeList, elapsed) ==
  IF probeList = <<>> THEN [x |-> 0, y |-> 0]
  ELSE LET probe == Head(probeList)
           phase == (probe.freq * elapsed) \div 10
           rest == multiSine(Tail(probeList), elapsed)
       IN [x |-> timesSin(probe.ampX, phase) + rest.x,
           y |-> timesSin(probe.ampY, phase + probe.phaseOffset) + rest.y]

\* the hold lasts through dt = holdDuration
pulsePhase_HoldInclusive(dt, holdDuration, returnDuration) ==
  IF dt < 0 THEN "before"
  ELSE IF dt <= holdDuration THEN "hold"
  ELSE IF dt < holdDuration + returnDuration THEN "return"
  ELSE "after"

\* which branch of the pulse loop a pulse takes dt milliseconds after its start
pulsePhase(dt, holdDuration, returnDuration) ==
  IF dt < 0 THEN "before"
  ELSE IF dt < holdDuration THEN "hold"
  ELSE IF dt < holdDuration + returnDuration THEN "return"
  ELSE "after"

\* pulse.amp * ease of the return branch, ease = 1 - frac * frac and
\* frac = (dt - holdDuration) / returnDuration
pulseEase(amp, dt, holdDuration, returnDuration) ==
  LET d == dt - holdDuration
      sq == returnDuration * returnDuration
      part == ((IF amp >= 0 THEN amp ELSE 0 - amp) * (sq - d * d)) \div sq
  IN IF amp >= 0 THEN part ELSE 0 - part

\* what one pulse adds to (px, py) at time t; pulse.ampX is in pixels
pulseAdds(pulse, t, trackingStart, holdDuration, returnDuration) ==
  LET pulseAbsTime == trackingStart + pulse.offsetMs
      dt == t - pulseAbsTime
      ph == pulsePhase(dt, holdDuration, returnDuration)
  IN IF ph = "hold" THEN [x |-> 1000 * pulse.ampX, y |-> 1000 * pulse.ampY]
     ELSE IF ph = "return"
     THEN [x |-> pulseEase(1000 * pulse.ampX, dt, holdDuration, returnDuration),
           y |-> pulseEase(1000 * pulse.ampY, dt, holdDuration, returnDuration)]
     ELSE [x |-> 0, y |-> 0]

RECURSIVE pulseComponent(_, _, _, _, _)
pulseComponent(pulseList, t, trackingStart, holdDuration, returnDuration) ==
  IF pulseList = <<>> THEN [x |-> 0, y |-> 0]
  ELSE LET a == pulseAdds(Head(pulseList), t, trackingStart,
                          holdDuration, returnDuration)
           rest == pulseComponent(Tail(pulseList), t, trackingStart,
                                  holdDuration, returnDuration)
       IN [x |-> a.x + rest.x, y |-> a.y + rest.y]

\* computePerturbation: pulseIndex is the index, from 0, of the last pulse of
\* the loop that is in its hold, -1 when none is
computePerturbation(t, trackingStart, probeList, pulseList, holdDuration, returnDuration) ==
  LET sine == multiSine(probeList, t - trackingStart)
      pulse == pulseComponent(pulseList, t, trackingStart,
                              holdDuration, returnDuration)
      holding == {n \in 1 .. Len(pulseList) :
                    pulsePhase(t - (trackingStart + pulseList[n].offsetMs),
                               holdDuration, returnDuration) = "hold"}
  IN [x |-> sine.x + pulse.x,
      y |-> sine.y + pulse.y,
      isPulse |-> holding # {},
      pulseIndex |-> IF holding = {} THEN -1
                     ELSE (CHOOSE n \in holding : \A k \in holding : k <= n) - 1]

\* the probes of a standalone challenge: five frequencies of the pool in
\* ascending order, amplitudes and phase offset from the middle of their ranges
ReconProbes ==
  [i \in 1 .. 5 |->
     [freq |-> <<3, 9, 15, 28, 51>>[i], ampX |-> 5000, ampY |-> 2000,
      phaseOffset |-> 167]]

\* two perturbations of generateChallenge: four pulses far apart, and seven
\* of which the sixth and the seventh are 870 ms apart
ReconPerturbations ==
  {perturbation(4, 20001, <<0, 0, 0, 0>>, 500),
   perturbation(7, 18000, <<0, 0, 0, 0, 0, 999, 0>>, 700)}

ReconTrackingStart == 5000

\* sample times around the branches of each pulse, and the start of tracking
PulseTimes(p) ==
  {ReconTrackingStart} \cup
  UNION {{ReconTrackingStart + p.pulses[n].offsetMs + d :
            d \in {-1, 0, p.pulseHoldDuration - 1, p.pulseHoldDuration,
                   p.pulseHoldDuration + 100,
                   p.pulseHoldDuration + p.pulseReturnDuration - 1,
                   p.pulseHoldDuration + p.pulseReturnDuration}} :
         n \in 1 .. Len(p.pulses)}

PerturbationCalls ==
  UNION {{[t |-> t, trackingStart |-> ReconTrackingStart, probes |-> pr,
           perturbation |-> p] :
            t \in PulseTimes(p), pr \in {<<>>, ReconProbes}} :
         p \in ReconPerturbations}

\* the dualtask phase continues from the length the client's tracking phase had
pathTime_ClientDuration(t, phases, trackingDuration) ==
  t - phases.trackingStart

\* pathTime of a kept sample
pathTime(t, phases, trackingDuration) ==
  IF t < phases.dualtaskStart THEN t - phases.trackingStart
  ELSE trackingDuration + (t - phases.dualtaskStart)

\* the path starts at the centre: the phase is left out
smoothPath_NoPhase(path, pt, canvasSize) ==
  [x |-> (canvasSize.width * 1000) \div 2
           + timesSin(canvasSize.width * path.padding, (path.freqX * pt) \div 100),
   y |-> (canvasSize.height * 1000) \div 2
           + timesSin(canvasSize.height * path.padding, (path.freqY * pt) \div 100)]

\* the smooth Lissajous path at pathTime pt; path.freqX and path.freqY are in
\* hundredths of a hertz, path.padding in thousandths, the canvas in pixels
smoothPath(path, pt, canvasSize) ==
  LET cx == (canvasSize.width * 1000) \div 2
      cy == (canvasSize.height * 1000) \div 2
      ax == canvasSize.width * path.padding
      ay == canvasSize.height * path.padding
  IN [x |-> cx + timesSin(ax, (path.freqX * pt) \div 100 + path.phase),
      y |-> cy + timesSin(ay, (path.freqY * pt) \div 100)]

\* the entry pushed for one kept sample
trackingEntry(sample, phases, challenge, canvasSize) ==
  LET t == sample[1]
      smooth == smoothPath(challenge.path,
                           pathTime(t, phases, challenge.trackingDuration), canvasSize)
      pert == computePerturbation(t, phases.trackingStart,
                                  challenge.perturbation.probes,
                                  challenge.perturbation.pulses,
                                  challenge.perturbation.pulseHoldDuration,
                                  challenge.perturbation.pulseReturnDuration)
  IN [t |-> t, x |-> sample[2], y |-> sample[3],
      targetX |-> smooth.x + pert.x,
      targetY |-> smooth.y + pert.y,
      pertX |-> pert.x,
      pertY |-> pert.y,
      isPulse |-> pert.isPulse,
      pulseIdx |-> pert.pulseIndex]

\* the target is taken from the position the client reports
reconstructTracking_TrustsClient(pointer, phases, challenge, canvasSize) ==
  [k \in DOMAIN pointer |->
     [trackingEntry(pointer[k], phases, challenge, canvasSize)
        EXCEPT !.targetX = pointer[k][2], !.targetY = pointer[k][3]]]

RECURSIVE reconstructTracking(_, _, _, _)
reconstructTracking(pointer, phases, challenge, canvasSize) ==
  IF pointer = <<>> THEN <<>>
  ELSE LET rest == reconstructTracking(Tail(pointer), phases, challenge, canvasSize)
       IN IF Head(pointer)[1] < phases.trackingStart THEN rest
          ELSE <<trackingEntry(Head(pointer), phases, challenge, canvasSize)>> \o rest

\* PATH_PAIRS[0] with the ends and the middle of pathPhase, pi / 4 - 0.5,
\* pi / 4 and pi / 4 + 0.5 radians
ReconPaths ==
  {[freqX |-> 15, freqY |-> 10, phase |-> ph, padding |-> 300] : ph \in {45, 125, 205}}

\* the fields of a stored challenge that reconstruction reads
ReconChallenges ==
  {[trackingDuration |-> 18000, path |-> pa,
    perturbation |-> [probes |-> ReconProbes,
                      pulses |-> pulses(7, 18000, <<0, 0, 0, 0, 0, 999, 0>>),
                      pulseHoldDuration |-> 700,
                      pulseReturnDuration |-> pulseReturnDuration]] :
     pa \in ReconPaths}

\* phases as the client reports them: a tracking phase of 20000 ms, and a
\* dualtask phase said to start before tracking
ReconPhases ==
  {[trackingStart |-> ReconTrackingStart, dualtaskStart |-> ReconTrackingStart + 20000],
   [trackingStart |-> ReconTrackingStart, dualtaskStart |-> ReconTrackingStart - 500]}

CanvasSizes == {[width |-> 800, height |-> 600], [width |-> 801, height |-> 601]}

\* sample times: free move, the start of tracking, the hold of the first
\* pulse, the last instant of the client's tracking phase, the dualtask phase
SampleTimes ==
  {ReconTrackingStart - 1000, ReconTrackingStart, ReconTrackingStart + 2900,
   ReconTrackingStart + 19999, ReconTrackingStart + 20000}

\* pointer arrays of three [t, x, y] samples, in any order of time; the
\* positions are all at the origin or differ from sample to sample
Pointers ==
  {[k \in 1 .. 3 |-> <<ts[k], k * xy, 2 * k * xy>>] :
     ts \in [1 .. 3 -> SampleTimes], xy \in {0, 100000}}

ReconInputs ==
  {[pointer |-> po, phases |-> ph, challenge |-> ch, canvas |-> cv] :
     po \in Pointers, ph \in ReconPhases, ch \in ReconChallenges, cv \in CanvasSizes}

\* ---- roll-off of the transfer function (analysis.js)
\* gains of the probes kept by analyzeTransferFunction, in ascending frequency:
\* up to five magnitudes, NaN among them
Gains == {1, 2, 3, NaN}

GainSequences == UNION {[1 .. n -> Gains] : n \in 0 .. 5}

\* the number of probes whose gain is below that of the probe before
rolloffScore(gains) ==
  Cardinality({i \in 2 .. Len(gains) : jsLess(gains[i], gains[i - 1])})

hasRolloff(gains) == rolloffScore(gains) >= 2

\* ---- the cross-axis pipeline (analysis.js); positions in thousandths of a
\* pixel, coupling in thousandths
\* a pipeline result is valid as soon as two pulses are usable
crossAxisTriggeredMin_Two == 2

\* the number of triggered pulses analyzeCrossAxis requires
crossAxisTriggeredMin == 3

\* tracking.filter(d => d.t >= absTime && d.t < absTime + 400)
pulseWindow(tracking, absTime) ==
  SelectSeq(tracking, LAMBDA d : d.t >= absTime /\ d.t < absTime + 400)

\* the values pushed to couplingValues, pulse by pulse
RECURSIVE couplingValues(_, _, _)
couplingValues(tracking, triggeredPulses, trackingStart) ==
  IF triggeredPulses = <<>> THEN <<>>
  ELSE LET win == pulseWindow(tracking, trackingStart + Head(triggeredPulses).offsetMs)
           rest == couplingValues(tracking, Tail(triggeredPulses), trackingStart)
           dx == win[Len(win)].x - win[1].x
           dy == win[Len(win)].y - win[1].y
       IN IF Len(win) < 5 THEN rest
          ELSE IF jsAbs(dx) > 2000 THEN <<(jsAbs(dy) * 1000) \div jsAbs(dx)>> \o rest
          ELSE rest

analyzeCrossAxis(tracking, pulseList, trackingStart) ==
  LET triggeredPulses ==
        SelectSeq(pulseList,
                  LAMBDA p : \E k \in DOMAIN tracking :
                               tracking[k].t >= trackingStart + p.offsetMs)
      values == couplingValues(tracking, triggeredPulses, trackingStart)
  IN IF Len(triggeredPulses) < crossAxisTriggeredMin THEN [valid |-> FALSE, meanCoupling |-> 0]
     ELSE IF Len(values) < 2 THEN [valid |-> FALSE, meanCoupling |-> 0]
     ELSE [valid |-> TRUE, meanCoupling |-> mean(values)]

\* the four pulses of a schedule
CrossAxisPulses == pulses(4, 20001, <<0, 0, 0, 0>>)

\* the samples of the 400 ms after a pulse: n of them 80 ms apart, the pointer
\* moving dx across and 600 down between the first and the last
WindowSamples(absTime, n, dx) ==
  [k \in 1 .. n |->
     [t |-> absTime + 80 * (k - 1),
      x |-> IF k = n THEN dx ELSE 0,
      y |-> IF k = n THEN 600 ELSE 0]]

\* tracking data that ends in the window of pulse m: for each pulse up to m,
\* four or five samples in its window and a movement of 2 or 3 pixels across
RECURSIVE WindowsUpTo(_, _)
WindowsUpTo(m, shape) ==
  IF m = 0 THEN <<>>
  ELSE WindowsUpTo(m - 1, shape)
         \o WindowSamples(ReconTrackingStart + CrossAxisPulses[m].offsetMs,
                          shape[m][1], shape[m][2])

CrossAxisInputs ==
  UNION {{[tracking |-> WindowsUpTo(m, shape), pulses |-> CrossAxisPulses,
           trackingStart |-> ReconTrackingStart] :
            shape \in [1 .. m -> {4, 5} \X {2000, 3000}]} :
         m \in 0 .. 4}

\* ---- the admin aggregator (server.js)
\* a line of sessionList.jsonl: text that is not JSON, the JSON text null, or a
\* logged session.  inputMethod is the string the client sent with its verify
\* request; "" stands for a field the record does not have.
SessionLines ==
  {[parses |-> FALSE], [parses |-> TRUE, isNull |-> TRUE]}
    \cup {[parses |-> TRUE, isNull |-> FALSE, inputMethod |-> i, verdictClass |-> v,
           mode |-> m, overall |-> o] :
            i \in {"mouse", "__proto__", ""}, v \in {"score-human", ""},
            m \in {"embed", ""}, o \in {650, 1000, Null}}

MaxLines == 2

SessionFiles == UNION {[1 .. n -> SessionLines] : n \in 0 .. MaxLines}

\* readAllSessions: the parsed lines, without those that do not parse and
\* without those whose value is falsy
readAllSessions(content) ==
  SelectSeq(content, LAMBDA line : line.parses /\ ~line.isNull)

\* obj[key] = (obj[key] || 0) + 1 on an object literal, an object being the
\* function from its own keys to their values.  The key "__proto__" is the
\* accessor of Object.prototype: reading it gives the prototype, and assigning
\* the string that the sum then is changes nothing.
increment(obj, key) ==
  IF key = "__proto__" THEN obj
  ELSE IF key \in DOMAIN obj THEN [obj EXCEPT ![key] = @ + 1]
  ELSE (key :> 1) @@ obj

\* a || b on strings
orElse(a, b) == IF a = "" THEN b ELSE a

RECURSIVE countBy(_, _, _, _)
countBy(obj, sessionList, field, default) ==
  IF sessionList = <<>> THEN obj
  ELSE countBy(increment(obj, orElse(Head(sessionList)[field], default)),
               Tail(sessionList), field, default)

\* Math.min(9, Math.floor((s.overall || 0) * 10)), from 0
bucket(overall) ==
  LET o == IF overall = Null THEN 0 ELSE overall
  IN IF o \div 100 > 9 THEN 9 ELSE o \div 100

\* computeAdminStats, without its counts by day and its metric averages
computeAdminStats(sessionList) ==
  [total |-> Len(sessionList),
   byDevice |-> countBy(<<>>, sessionList, "inputMethod", "unknown"),
   byVerdict |-> countBy([v \in {"score-human", "score-uncertain", "score-bot"} |-> 0],
                         sessionList, "verdictClass", "score-bot"),
   byMode |-> countBy(<<>>, sessionList, "mode", "standalone"),
   scoreDistribution |->
     [b \in 0 .. 9 |-> Cardinality({k \in DOMAIN sessionList : bucket(sessionList[k].overall) = b})]]

Calls ==
  {Call("verifyToken", t) : t \in TokenStrings}
    \cup {Call("makeToken", p) : p \in Payloads}
    \cup {Call("clientParams", c) : c \in StandaloneChallenges}
    \cup {Call("adminRoute", r) : r \in AdminRequests}
    \cup {Call("analyze", d) : d \in RawData}
    \cup {Call("pulses", p) : p \in PulseInputs}
    \cup {Call("probes", p) : p \in ProbeInputs}
    \cup {Call("cogTask", d) : d \in CogDraws}
    \cup {Call("perturbation", p) : p \in PerturbationInputs}
    \cup {Call("computePerturbation", c) : c \in PerturbationCalls}
    \cup {Call("reconstructTracking", r) : r \in ReconInputs}
    \cup {Call("hasRolloff", g) : g \in GainSequences}
    \cup {Call("analyzeCrossAxis", c) : c \in CrossAxisInputs}
    \cup {Call("adminStats", f) : f \in SessionFiles}

InitCalls == Started /\ call \in Calls /\ client = NoClient

\* verifyToken(token)
callVerifyToken == Return("verifyToken", verifyToken(call.arg))

\* verifyToken(makeToken(data))
callMakeToken == Return("makeToken", verifyToken(makeToken(call.arg)))

\* clientParams(challenge)
callClientParams == Return("clientParams", clientParams(call.arg))

\* GET of an admin route
callAdminRoute == Return("adminRoute", adminRoute(call.arg))

\* analyze on the samples and pipeline results of a verify request
callAnalyze == Return("analyze", analyze(call.arg))

\* the pulse schedule generateChallenge draws
callPulses ==
  Return("pulses", pulses(call.arg.pulseCount, call.arg.trackingDuration, call.arg.draws))

\* the probes a challenge generator draws
callProbes == Return("probes", probes(call.arg.mode, call.arg.shuffled))

\* the cognitive task generateChallenge draws
callCogTask ==
  Return("cogTask", cogTask(call.arg.colorIdx, call.arg.targetCount,
                            call.arg.picks, call.arg.swaps))

\* the perturbation a challenge generator draws
callPerturbation ==
  Return("perturbation",
         IF call.arg.mode = "embed"
         THEN embedPerturbation(call.arg.pulseCount, call.arg.draws, call.arg.hold)
         ELSE perturbation(call.arg.pulseCount, call.arg.trackingDuration,
                           call.arg.draws, call.arg.hold))

\* computePerturbation at a sample time
callComputePerturbation ==
  Return("computePerturbation",
         computePerturbation(call.arg.t, call.arg.trackingStart, call.arg.probes,
                             call.arg.perturbation.pulses,
                             call.arg.perturbation.pulseHoldDuration,
                             call.arg.perturbation.pulseReturnDuration))

\* reconstructTracking on the pointer samples of a verify request
callReconstructTracking ==
  Return("reconstructTracking",
         reconstructTracking(call.arg.pointer, call.arg.phases, call.arg.challenge,
                             call.arg.canvas))

\* the roll-off test of analyzeTransferFunction on the gains of its probes
callHasRolloff == Return("hasRolloff", hasRolloff(call.arg))

\* analyzeCrossAxis on reconstructed tracking data
callAnalyzeCrossAxis ==
  Return("analyzeCrossAxis",
         analyzeCrossAxis(call.arg.tracking, call.arg.pulses, call.arg.trackingStart))

\* =============================================== the embed client (embed.js)
\* The page has called start(): the challenge is held and the listeners are
\* on the observed elements.  Times are in ms of performance.now(), which the
\* timestamp of an animation frame shares.
MaxClientEvents == 6

\* elements 1 and 2 match an observed selector, element 3 is no longer observed
ObservedElements == {1, 2}
Elements == {1, 2, 3}

\* the time between two events: none, less than a pulse lasts, more than the
\* spacing of two pulses
Deltas == {0, 700, 2800}

PageLoadedAt == 1000

\* the perturbations of generateEmbedChallenge the client may hold
ClientChallenges ==
  {embedPerturbation(4, <<200, -200, 0, 200>>, 400),
   embedPerturbation(5, <<0, 0, 200, -200, 0>>, 600)}

\* the fields the constructor sets, with the challenge start() has stored;
\* 0 stands for the null of _hoveredEl, events counts the events handled
NewClient(perturb) ==
  [loaded |-> TRUE, challenge |-> perturb, clock |-> PageLoadedAt, events |-> 0,
   hoveredEl |-> 0, hoveredIndex |-> -1, hoverStartWall |-> 0,
   hoverStartCumulTime |-> 0, cumulativeHoverTime |-> 0, lastHoverTick |-> 0,
   nextPulseIndex |-> 0, hovers |-> <<>>, pulseLog |-> <<>>]

\* this._cumulativeHoverTime += (t - this._lastHoverTick), when a tick is held
accumulate(c, t) ==
  IF c.lastHoverTick > 0
  THEN [c EXCEPT !.cumulativeHoverTime = @ + (t - c.lastHoverTick)]
  ELSE c

\* the whole hover is added again when it ends
endHover_AddsWholeHover(c, t) ==
  IF c.hoveredEl = 0 THEN c
  ELSE LET a == [accumulate(c, t) EXCEPT !.cumulativeHoverTime = @ + (t - c.hoverStartWall)]
       IN [a EXCEPT !.lastHoverTick = 0,
                    !.hovers = Append(@, [index |-> c.hoveredIndex,
                                          startWall |-> c.hoverStartWall,
                                          endWall |-> t,
                                          startHover |-> c.hoverStartCumulTime,
                                          endHover |-> a.cumulativeHoverTime]),
                    !.hoveredEl = 0,
                    !.hoveredIndex = -1]

\* _endHover at performance.now() = t
endHover(c, t) ==
  IF c.hoveredEl = 0 THEN c
  ELSE LET a == accumulate(c, t)
       IN [a EXCEPT !.lastHoverTick = 0,
                    !.hovers = Append(@, [index |-> c.hoveredIndex,
                                          startWall |-> c.hoverStartWall,
                                          endWall |-> t,
                                          startHover |-> c.hoverStartCumulTime,
                                          endHover |-> a.cumulativeHoverTime]),
                    !.hoveredEl = 0,
                    !.hoveredIndex = -1]

\* _handlePointerEnter on element el; the index of an element is its number
\* of registration, from 0
handlePointerEnter(c, el, t) ==
  IF el \notin ObservedElements THEN c
  ELSE LET e == IF c.hoveredEl # 0 THEN endHover(c, t) ELSE c
       IN [e EXCEPT !.hoveredEl = el,
                    !.hoveredIndex = el - 1,
                    !.hoverStartWall = t,
                    !.hoverStartCumulTime = e.cumulativeHoverTime,
                    !.lastHoverTick = t]

\* _handlePointerLeave on element el
handlePointerLeave(c, el, t) ==
  IF el # c.hoveredEl THEN c ELSE endHover(c, t)

\* _handlePointerMove, the pointer sample left aside
handlePointerMove(c, t) ==
  IF c.hoveredEl = 0 \/ c.hoveredIndex < 0 THEN c
  ELSE [accumulate(c, t) EXCEPT !.lastHoverTick = t]

\* a pulse is logged again at every tick after its time
checkPulses_LogsAgain(c, hoverT, wallTime) ==
  LET ps == c.challenge.pulses
      due == {n \in 1 .. Len(ps) : hoverT >= ps[n].hoverTimeMs}
      logged == [n \in 1 .. Cardinality(due) |->
                   [hoverTimeMs |-> ps[n].hoverTimeMs, wallTime |-> wallTime,
                    ampX |-> ps[n].ampX, ampY |-> ps[n].ampY, index |-> c.hoveredIndex]]
  IN [c EXCEPT !.pulseLog = @ \o logged,
               !.nextPulseIndex = IF Cardinality(due) > @ THEN Cardinality(due) ELSE @]

\* _checkPulses: the pulses from _nextPulseIndex on whose time has come
RECURSIVE checkPulses(_, _, _)
checkPulses(c, hoverT, wallTime) ==
  LET ps == c.challenge.pulses IN
  IF c.nextPulseIndex >= Len(ps) THEN c
  ELSE LET pulse == ps[c.nextPulseIndex + 1]
       IN IF hoverT >= pulse.hoverTimeMs
          THEN checkPulses([c EXCEPT !.pulseLog =
                                       Append(@, [hoverTimeMs |-> pulse.hoverTimeMs,
                                                  wallTime |-> wallTime,
                                                  ampX |-> pulse.ampX,
                                                  ampY |-> pulse.ampY,
                                                  index |-> c.hoveredIndex]),
                                   !.nextPulseIndex = @ + 1],
                           hoverT, wallTime)
          ELSE c

\* _perturbTick(timestamp), the CSS transform left aside
perturbTick(c, timestamp) ==
  IF c.hoveredEl = 0 THEN c
  ELSE LET a == [accumulate(c, timestamp) EXCEPT !.lastHoverTick = timestamp]
       IN checkPulses(a, a.cumulativeHoverTime, timestamp)

\* an event reaches the client d ms after the one before
Handled(d, next) ==
  /\ client.loaded
  /\ client.events < MaxClientEvents
  /\ client' = [next EXCEPT !.clock = client.clock + d, !.events = client.events + 1]
  /\ UNCHANGED <<now, challenges, nextId, issued, req, running, sessions, lastResp,
                 effects, call>>

\* pointerenter on an element
PointerEnter ==
  \E d \in Deltas, el \in Elements :
    Handled(d, handlePointerEnter(client, el, client.clock + d))

\* pointerleave on an element
PointerLeave ==
  \E d \in Deltas, el \in Elements :
    Handled(d, handlePointerLeave(client, el, client.clock + d))

\* pointermove
PointerMove ==
  \E d \in Deltas : Handled(d, handlePointerMove(client, client.clock + d))

\* the animation frame callback
AnimationFrame ==
  \E d \in Deltas : Handled(d, perturbTick(client, client.clock + d))

InitClient == Started /\ call = NoCall /\ client \in {NewClient(p) : p \in ClientChallenges}

NextClient ==
  \/ PointerEnter
  \/ PointerLeave
  \/ PointerMove
  \/ AnimationFrame

SpecClient == InitClient /\ [][NextClient]_vars

\* GET /api/admin/stats: computeAdminStats(readAllSessions())
callAdminStats == Return("adminStats", computeAdminStats(readAllSessions(call.arg)))

NextCalls ==
  \/ callAdminStats
  \/ callAnalyzeCrossAxis
  \/ callHasRolloff
  \/ callReconstructTracking
  \/ callComputePerturbation
  \/ callPerturbation
  \/ callAnalyze
  \/ callCogTask
  \/ callProbes
  \/ callPulses
  \/ callVerifyToken
  \/ callMakeToken
  \/ callClientParams
  \/ callAdminRoute

SpecCalls == InitCalls /\ [][NextCalls]_vars

\* ================================================================= properties
Has(seq, e) == \E i \in DOMAIN seq : seq[i] = e
Count(seq, e) == Cardinality({i \in DOMAIN seq : seq[i] = e})

\* the step just taken wrote the response of a verify request
Responds == lastResp = NoResp /\ lastResp'.kind = "verify"

\* the challenge a request's token names, and whether the server issued that token
Named(resp) == b64urlDecode(resp.body.token.payload).value.challengeId
Genuine(tok) == \E c \in DOMAIN issued : issued[c] = tok

ShapeErrors ==
  {"insufficient_pointer_data", "missing_phases", "missing_canvas", "missing_elements"}

AfterLookup == {"checks", "mark", "shape", "analyze", "receipt", "log", "respond"}

GoodBody(tok) == Body(tok, 50, TRUE, TRUE, TRUE, TRUE)

\* C1: a challenge's used flag never goes back from true to false, and a verify
\* that returns 200 for a challengeId is the first that does.
C1_SingleUse ==
  [][ /\ \A c \in DOMAIN challenges :
           (challenges[c].used /\ c \in DOMAIN challenges') => challenges'[c].used
      /\ (Responds /\ lastResp'.status = 200)
           => /\ lastResp'.receipt # <<>>
              /\ ~Has(effects[lastResp'.challengeId], "receipt") ]_vars

\* a second verify for a challenge that already has its receipt is answered 409
C1_Witness ==
  /\ lastResp.kind = "verify"
  /\ lastResp.status = 409
  /\ Genuine(lastResp.body.token)
  /\ Has(effects[Named(lastResp)], "receipt")

\* C2: a handler past its body read owns the thread until it responds, so no
\* other handler step and no sweep runs between its lookup, its checks and its
\* write; the record it looked up stays in the store until it responds; and no
\* challenge passes the not-used check twice.
C2_CriticalSection ==
  /\ \A s \in Slots : req[s].pc \notin {"idle", "read"} => running = s
  /\ \A s \in Slots : req[s].pc \in AfterLookup => req[s].cid \in DOMAIN challenges
  /\ \A c \in DOMAIN effects : Count(effects[c], "used") + Count(effects[c], "expired") <= 1

\* one request has passed the not-used check while another is still reading its body
C2_Witness ==
  \E s, r \in Slots : s # r /\ req[s].pc = "mark" /\ req[r].pc = "read"

\* C3 as stated: once a verify for C has returned 200, every later verify at
\* /api/verify with C's token returns 409.
C3_Original ==
  [][ (/\ Responds
       /\ lastResp'.endpoint = "/api/verify"
       /\ Genuine(lastResp'.body.token)
       /\ Has(effects[Named(lastResp')], "receipt"))
      => lastResp'.status = 409 ]_vars

\* C3 as amended: such a verify returns 409 while C is in the store and 404
\* once the sweeper has deleted C; at no endpoint does it return 200.
C3_ReplayRejected ==
  [][ (/\ Responds
       /\ Genuine(lastResp'.body.token)
       /\ Has(effects[Named(lastResp')], "receipt"))
      => /\ lastResp'.status # 200
         /\ lastResp'.endpoint = "/api/verify" =>
              IF Named(lastResp') \in DOMAIN challenges
              THEN lastResp'.error = "challenge_already_used"
              ELSE lastResp'.error = "challenge_not_found" ]_vars

\* the replay of a verified challenge after its eviction is answered 404
C3_Witness ==
  /\ lastResp.kind = "verify"
  /\ lastResp.endpoint = "/api/verify"
  /\ lastResp.error = "challenge_not_found"
  /\ Genuine(lastResp.body.token)
  /\ Has(effects[Named(lastResp)], "receipt")
  /\ Has(effects[Named(lastResp)], "evict")

\* C4 as stated: a verify answered with a shape error leaves its challenge unused.
C4_ShapeFailureKeepsUnused ==
  (lastResp.kind = "verify" /\ lastResp.error \in ShapeErrors)
    => /\ Named(lastResp) \in DOMAIN challenges
       /\ ~challenges[Named(lastResp)].used

C6_BadTokenHarmless ==
  [][ (Responds /\ ~Genuine(lastResp'.body.token))
      => /\ lastResp'.status = 401
         /\ lastResp'.error = "invalid_token"
         /\ challenges' = challenges
         /\ sessions' = sessions
         /\ \A c \in DOMAIN challenges' :
              (/\ ~challenges'[c].used
               /\ now' <= challenges'[c].expiresAt
               /\ challenges'[c].mode # "embed")
              => \A o \in Overalls :
                   VerifyOutcome("/api/verify", GoodBody(issued[c]), challenges', now', o, TRUE).status
                     = 200 ]_vars

\* a forged token naming an unused, unexpired challenge was answered 401
C6_Witness ==
  /\ lastResp.kind = "verify"
  /\ lastResp.status = 401
  /\ lastResp.body.token.isString
  /\ Named(lastResp) \in DOMAIN challenges
  /\ ~challenges[Named(lastResp)].used
  /\ now <= challenges[Named(lastResp)].expiresAt

\* the request reaches the expiry test: its token is genuine, its challenge is
\* in the store, of the endpoint's mode where the endpoint tests it, and unused
ReachesExpiryTest(resp, store) ==
  /\ Genuine(resp.body.token)
  /\ Named(resp) \in DOMAIN store
  /\ ~store[Named(resp)].used
  /\ resp.endpoint = "/api/embed/verify" => store[Named(resp)].mode = "embed"

ModeMismatch(ep, rec) ==
  \/ ep = "/api/embed/verify" /\ rec.mode # "embed"
  \/ ep = "/api/verify" /\ rec.mode = "embed"

\* C8 as stated: a verify for an unused challenge of the other mode than the
\* endpoint's is answered 400 wrong_challenge_mode and changes nothing.
C8_WrongModeRejected ==
  [][ (/\ Responds
       /\ Genuine(lastResp'.body.token)
       /\ Named(lastResp') \in DOMAIN challenges
       /\ ~challenges[Named(lastResp')].used
       /\ ModeMismatch(lastResp'.endpoint, challenges[Named(lastResp')]))
      => /\ lastResp'.status = 400
         /\ lastResp'.error = "wrong_challenge_mode"
         /\ challenges' = challenges ]_vars

\* the error the claimed order of checks gives a request, "" when none fails
FirstFailing(ep, body, store, t) ==
  LET id == b64urlDecode(body.token.payload).value.challengeId
      present == Genuine(body.token) /\ id \in DOMAIN store
      checks ==
        << <<~Genuine(body.token), "invalid_token">>,
           <<~present, "challenge_not_found">>,
           <<present /\ ep = "/api/embed/verify" /\ store[id].mode # "embed", "wrong_challenge_mode">>,
           <<present /\ store[id].used, "challenge_already_used">>,
           <<present /\ t > store[id].expiresAt, "challenge_expired">>,
           <<ShapeError(ep, body) # "", ShapeError(ep, body)>> >>
      failing == {i \in DOMAIN checks : checks[i][1]}
  IN IF failing = {} THEN ""
     ELSE checks[CHOOSE i \in failing : \A j \in failing : i <= j][2]

\* C9: every verify that fails a check is answered with the error of the first
\* failing check in the order token, exists, mode (embed endpoint), used,
\* expired, shape, with the status of that error.
C9_FirstFailingCheck ==
  [][ Responds =>
        LET first == FirstFailing(lastResp'.endpoint, lastResp'.body, challenges, now)
        IN /\ first # "" => lastResp'.error = first
           /\ first = "" => lastResp'.error \in {"", "analysis_failed"}
           /\ lastResp'.error \in {"invalid_token"} <=> lastResp'.status = 401
           /\ lastResp'.error \in {"challenge_not_found"} <=> lastResp'.status = 404
           /\ lastResp'.error \in {"challenge_already_used"} <=> lastResp'.status = 409
           /\ lastResp'.error \in {"challenge_expired"} <=> lastResp'.status = 410
           /\ lastResp'.error \in ShapeErrors \cup {"wrong_challenge_mode"}
                <=> lastResp'.status = 400 ]_vars

\* a badly shaped request for an expired challenge was answered 410
C9_Witness ==
  /\ lastResp.kind = "verify"
  /\ lastResp.error = "challenge_expired"
  /\ ShapeError(lastResp.endpoint, lastResp.body) # ""

Rank(e) ==
  CASE e = "create" -> 0
    [] e \in {"used", "expired"} -> 1
    [] e \in {"session", "failed"} -> 2
    [] e = "receipt" -> 3
    [] OTHER -> 4

\* C10: the effects on a challenge happen in the order create, used, session
\* record, receipt, evict, each at most once; a challenge in the store that has
\* a session record or a receipt is used; every session record names a
\* challenge that was marked used before.
C10_EffectOrder ==
  /\ \A c \in DOMAIN effects :
       /\ \A i, j \in DOMAIN effects[c] : i < j => Rank(effects[c][i]) < Rank(effects[c][j])
       /\ (c \in DOMAIN challenges /\ (Has(effects[c], "session") \/ Has(effects[c], "receipt")))
            => challenges[c].used
       /\ Has(effects[c], "receipt") => Has(effects[c], "used")
  /\ \A i \in DOMAIN sessions :
       /\ sessions[i].challengeId \in DOMAIN effects
       /\ Has(effects[sessions[i].challengeId], "used")
  /\ \A s \in Slots : req[s].pc \in {"receipt", "log", "respond"} =>
       /\ req[s].cid \in DOMAIN challenges
       /\ challenges[req[s].cid].used

\* a challenge went through all five effects
C10_Witness ==
  \E c \in DOMAIN effects : effects[c] = <<"create", "used", "session", "receipt", "evict">>

\* the event the step has just added to the effects of c, "" when it added none
Added(c) ==
  IF c \in DOMAIN effects /\ Len(effects'[c]) > Len(effects[c])
  THEN effects'[c][Len(effects'[c])]
  ELSE ""

\* C11: a standalone challenge expires at issuedAt + CHALLENGE_TTL_MS, an embed
\* challenge at issuedAt + 2 * CHALLENGE_TTL_MS; no verify is answered 200, and
\* none passes the expiry test, logs a session or fails in analysis, at a time
\* later than the expiresAt of its challenge.
C11_UsableWithinTTL ==
  [][ /\ \A c \in DOMAIN challenges' :
           /\ challenges'[c].expiresAt = challenges'[c].issuedAt +
                 (IF challenges'[c].mode = "embed" THEN 2 * CHALLENGE_TTL_MS
                  ELSE CHALLENGE_TTL_MS)
           /\ Added(c) \in {"used", "failed", "session", "receipt"}
                => now' <= challenges'[c].expiresAt
      /\ (Responds /\ lastResp'.status = 200) =>
           /\ lastResp'.challengeId \in DOMAIN challenges'
           /\ now' <= challenges'[lastResp'.challengeId].expiresAt ]_vars

\* a verify was answered 200 at the very instant its challenge expires
C11_Witness ==
  /\ lastResp.kind = "verify"
  /\ lastResp.status = 200
  /\ lastResp.challengeId \in DOMAIN challenges
  /\ now = challenges[lastResp.challengeId].expiresAt

\* C12 as stated: a record that a verify marked used, with usedAt set, leaves
\* the store only once more than 10 minutes have passed since its usedAt.
C12_UsedRetained ==
  [][ \A c \in DOMAIN challenges :
        (/\ challenges[c].used
         /\ Truthy(challenges[c].usedAt)
         /\ c \notin DOMAIN challenges')
        => now - challenges[c].usedAt > USED_RETENTION_MS ]_vars

\* C13: an unused record leaves the store only at a time now > expiresAt + 60 s,
\* and a sweeper run at any such time deletes it while a run at any earlier
\* time keeps it.
C13_UnusedGrace ==
  [][ \A c \in DOMAIN challenges :
        ~challenges[c].used =>
          /\ c \notin DOMAIN challenges'
               => now > challenges[c].expiresAt + SWEEP_GRACE_MS
          /\ c \in DOMAIN cleanupChallenges(challenges, now)
               <=> now <= challenges[c].expiresAt + SWEEP_GRACE_MS ]_vars

\* an unused challenge has been evicted
C13_Witness ==
  \E c \in DOMAIN effects : effects[c] = <<"create", "evict">>

\* the sweeper and the clock run again and again; a response is flushed
SpecFair ==
  /\ Init
  /\ [][Next]_vars
  /\ SF_vars(Tick)
  /\ SF_vars(Sweep)
  /\ WF_vars(Flush)

\* C14: every challenge in the store whose grace period ends within the
\* modelled time is eventually deleted, whatever its state; and a sweeper run
\* later than usedAt + 10 minutes deletes a used record.
C14_EventuallyEvicted ==
  /\ \A c \in ChallengeIds :
       (c \in DOMAIN challenges /\ challenges[c].expiresAt + SWEEP_GRACE_MS < MaxTime)
         ~> (c \notin DOMAIN challenges)
  /\ [](\A c \in DOMAIN challenges :
          (/\ challenges[c].used
           /\ Truthy(challenges[c].usedAt)
           /\ now - challenges[c].usedAt > USED_RETENTION_MS)
          => c \notin DOMAIN cleanupChallenges(challenges, now))

\* a challenge marked used by the expiry path, without usedAt, has been evicted
C14_Witness ==
  \E c \in DOMAIN effects : effects[c] = <<"create", "expired", "evict">>

HasNaN(p) == \E f \in DOMAIN p \cap NumericFields : p[f] = NaN

C15_NoTargetLeak ==
  (call.fn = "clientParams" /\ call.out # <<>>) =>
    LET shown == call.out[1].cogTask
    IN /\ "targetCount" \notin DOMAIN shown
       /\ "isTarget" \notin DOMAIN shown
       /\ \A i \in DOMAIN shown.flashes : "isTarget" \notin DOMAIN shown.flashes[i]

\* C17 as stated: an embed verify with a genuine token for an unused, unexpired
\* embed challenge, at least 30 pointer samples and an element is answered 200
\* with a signed receipt of mode "embed" and appends one embed session record.
C17_EmbedVerifySucceeds ==
  [][ (/\ Responds
       /\ lastResp'.endpoint = "/api/embed/verify"
       /\ Genuine(lastResp'.body.token)
       /\ Named(lastResp') \in DOMAIN challenges
       /\ challenges[Named(lastResp')].mode = "embed"
       /\ ~challenges[Named(lastResp')].used
       /\ now <= challenges[Named(lastResp')].expiresAt
       /\ lastResp'.body.pointerLen >= MIN_POINTER_EMBED
       /\ lastResp'.body.elements)
      => /\ lastResp'.status = 200
         /\ lastResp'.receipt # <<>>
         /\ verifyToken(lastResp'.receipt[1]) # <<>>
         /\ verifyToken(lastResp'.receipt[1])[1].mode = "embed"
         /\ sessions' = Append(sessions, [mode |-> "embed",
                                          challengeId |-> Named(lastResp')]) ]_vars

\* each challengeId is named by at most one session record
OneRecordEach(log) ==
  \A i, j \in DOMAIN log : log[i].challengeId = log[j].challengeId => i = j

\* C18 as stated: a verify answered 200 appends exactly one session record, a
\* verify answered with an error appends none, and each challengeId is named
\* by at most one session record.
C18_Original ==
  [][ /\ (Responds /\ lastResp'.status = 200) => Len(sessions') = Len(sessions) + 1
      /\ (Responds /\ lastResp'.status # 200) => sessions' = sessions
      /\ OneRecordEach(sessions') ]_vars

\* C18 as amended: a verify answered 200 appends one session record, for its
\* challenge and of its endpoint's mode, or none when the append fails; nothing
\* else appends or removes a record; each challengeId is named by at most one.
C18_SessionPerSuccess ==
  [][ /\ (Responds /\ lastResp'.status = 200) =>
           sessions' \in {sessions,
                          Append(sessions, SessionRecord(lastResp'.endpoint,
                                                         lastResp'.challengeId, Result(0)))}
      /\ ~(Responds /\ lastResp'.status = 200) => sessions' = sessions
      /\ OneRecordEach(sessions') ]_vars

\* a verify was answered 200 and its session record is in the log
C18_Witness ==
  /\ lastResp.kind = "verify"
  /\ lastResp.status = 200
  /\ \E i \in DOMAIN sessions : sessions[i].challengeId = lastResp.challengeId

\* C19: whenever a verify is answered 200 with its session record appended,
\* the same verify with the append failing is answered 200 with the same
\* receipt and leaves the same store, with the challenge used, and no record.
C19_LogFailureTolerated ==
  \A ep \in Endpoints, body \in Bodies, o \in Overalls :
    LET logged == VerifyOutcome(ep, body, challenges, now, o, TRUE)
        failed == VerifyOutcome(ep, body, challenges, now, o, FALSE)
    IN logged.status = 200 =>
         /\ failed.status = 200
         /\ failed.receipt = logged.receipt
         /\ failed.receipt # <<>>
         /\ failed.store = logged.store
         /\ failed.store[failed.cid].used
         /\ failed.session = <<>>
         /\ logged.session # <<>>

\* a verify was answered 200 although its session record was not appended
C19_Witness ==
  /\ lastResp.kind = "verify"
  /\ lastResp.status = 200
  /\ lastResp.receipt # <<>>
  /\ challenges[lastResp.challengeId].used
  /\ \A i \in DOMAIN sessions : sessions[i].challengeId # lastResp.challengeId

\* the token an admin request supplies: that of a Bearer header when it has
\* one, else that of ?token=; <<>> when it supplies none
Supplied(request) ==
  IF /\ request.authorization.present
     /\ request.authorization.bearer
     /\ request.authorization.rest # <<>>
  THEN request.authorization.rest
  ELSE IF request.token.present THEN request.token.value ELSE <<>>

\* C20: on every admin route the answer is 503 admin_not_configured when no
\* admin token is configured; else 401 missing_token when none is supplied;
\* else 401 invalid_token when the supplied token, the Bearer one first,
\* differs from the configured one; the page or session data is returned only
\* when the supplied token equals the configured one.
C20_AdminGate ==
  (call.fn = "adminRoute" /\ call.out # <<>>) =>
    LET request == call.arg
        answer == call.out[1]
    IN /\ request.config = <<>> =>
            /\ answer.status = 503
            /\ answer.error = "admin_not_configured"
       /\ (request.config # <<>> /\ Supplied(request) = <<>>) =>
            /\ answer.status = 401
            /\ answer.error = "missing_token"
       /\ (request.config # <<>> /\ Supplied(request) # <<>>
             /\ Supplied(request) # request.config) =>
            /\ answer.status = 401
            /\ answer.error = "invalid_token"
       /\ answer.data # "none" =>
            /\ request.config # <<>>
            /\ Supplied(request) = request.config
            /\ answer.status = 200
       /\ (request.config # <<>> /\ Supplied(request) = request.config) =>
            answer.status \notin {401, 503}

\* a Bearer token of the wrong length was refused on the session route
\* although ?token= was right
C20_Witness ==
  /\ call.fn = "adminRoute"
  /\ call.arg.route = "/api/admin/session/:id"
  /\ call.arg.id = "logged"
  /\ call.out # <<>>
  /\ call.out[1].error = "invalid_token"
  /\ call.arg.authorization.bearer
  /\ Len(call.arg.authorization.rest) # Len(call.arg.config)
  /\ call.arg.token.value = call.arg.config

Verdicts ==
  {"BIOLOGICAL CONTROLLER DETECTED", "UNCERTAIN - INCONCLUSIVE SIGNALS",
   "NON-BIOLOGICAL CONTROLLER SUSPECTED"}

Returned(fn) == call.fn = fn /\ call.out # <<>>

\* C21: every result of analyze carries one of the three verdicts, the one its
\* overall determines: BIOLOGICAL from 0.65, UNCERTAIN from 0.35 to below
\* 0.65, NON-BIOLOGICAL otherwise.
C21_Original ==
  Returned("analyze") =>
    LET result == call.out[1]
    IN /\ result.verdict \in Verdicts
       /\ result.verdict = Verdict(result.overall).verdict

\* C21 (amended): a result of analyze on fewer than 50 tracking samples
\* carries the verdict INSUFFICIENT DATA, overall 0 and class score-bot; every
\* other result carries one of the three verdicts, the one its overall
\* determines, and no result carries any other verdict string.
C21_VerdictClasses ==
  Returned("analyze") =>
    LET result == call.out[1]
    IN IF call.arg.tracking < 50
       THEN /\ result.verdict = "INSUFFICIENT DATA"
            /\ result.overall = 0
            /\ result.verdictClass = "score-bot"
       ELSE /\ result.verdict \in Verdicts
            /\ result.verdict = "BIOLOGICAL CONTROLLER DETECTED"
                 <=> jsGeq(result.overall, 650)
            /\ result.verdict = "UNCERTAIN - INCONCLUSIVE SIGNALS"
                 <=> (jsGeq(result.overall, 350) /\ ~jsGeq(result.overall, 650))

\* analyze returned INSUFFICIENT DATA for 49 tracking samples
C21_Witness ==
  /\ Returned("analyze")
  /\ call.arg.tracking = 49
  /\ call.out[1].verdict = "INSUFFICIENT DATA"

\* the verdict and class of a returned result whose overall is o
VerdictAt(o, verdict, class) ==
  (Returned("analyze") /\ call.arg.tracking >= 50 /\ call.out[1].overall = o) =>
    /\ call.out[1].verdict = verdict
    /\ call.out[1].verdictClass = class

\* C22: the verdict thresholds are inclusive: overall 0.65 is BIOLOGICAL
\* (score-human), 0.64 and 0.35 are UNCERTAIN (score-uncertain), 0.34 is
\* NON-BIOLOGICAL (score-bot).
C22_InclusiveThresholds ==
  /\ VerdictAt(650, "BIOLOGICAL CONTROLLER DETECTED", "score-human")
  /\ VerdictAt(640, "UNCERTAIN - INCONCLUSIVE SIGNALS", "score-uncertain")
  /\ VerdictAt(350, "UNCERTAIN - INCONCLUSIVE SIGNALS", "score-uncertain")
  /\ VerdictAt(340, "NON-BIOLOGICAL CONTROLLER SUSPECTED", "score-bot")

\* a result whose overall is exactly 0.35 was returned as UNCERTAIN
C22_Witness ==
  /\ Returned("analyze")
  /\ call.out[1].overall = 350
  /\ call.out[1].verdictClass = "score-uncertain"

\* the sum of weight * score, and of weight, over the pipelines of a score table
RECURSIVE SumScores(_, _)
SumScores(scores, ps) ==
  IF ps = {} THEN 0
  ELSE LET p == CHOOSE q \in ps : TRUE
       IN scores[p].weight * scores[p].score + SumScores(scores, ps \ {p})

RECURSIVE SumWeights(_, _)
SumWeights(scores, ps) ==
  IF ps = {} THEN 0
  ELSE LET p == CHOOSE q \in ps : TRUE
       IN scores[p].weight + SumWeights(scores, ps \ {p})

\* C23: every sub-score is in [0,1]; the scored pipelines are exactly the valid
\* ones (tremor once, when the cursor or the accelerometer tremor is valid),
\* each with the weight of the fixed table; overall is the weighted mean of
\* their sub-scores, 0 when no pipeline is valid, and always in [0,1].
C23_WeightedAverage ==
  (Returned("analyze") /\ call.arg.tracking >= 50) =>
    LET result == call.out[1]
        valid == {p \in DOMAIN ScoringConfig.weights : Counted(call.arg.results, p)}
    IN /\ DOMAIN result.scores = valid
       /\ \A p \in valid :
            /\ result.scores[p].weight = ScoringConfig.weights[p]
            /\ result.scores[p].score \in 0 .. 1000
       /\ valid = {} => result.overall = 0
       /\ valid # {} =>
            result.overall = SumScores(result.scores, valid) \div SumWeights(result.scores, valid)
       /\ result.overall \in 0 .. 1000

\* the payload signed into the receipt of a response
ReceiptOf(resp) == b64urlDecode(resp.receipt[1].payload).value

\* C24: the receipt of a successful verify names the challenge the request
\* consumed; its verified flag is overall >= 0.65 on /api/verify, where it is
\* true exactly when the verdict is BIOLOGICAL, and overall >= 0.60 on
\* /api/embed/verify.
C24_ReceiptContent ==
  [][ (Responds /\ lastResp'.status = 200)
      => LET payload == ReceiptOf(lastResp')
             consumed == {c \in DOMAIN challenges :
                            /\ ~challenges[c].used
                            /\ c \in DOMAIN challenges'
                            /\ challenges'[c].used}
         IN /\ consumed = {payload.challengeId}
            /\ lastResp'.endpoint = "/api/verify" =>
                 /\ payload.verified <=> jsGeq(payload.score, 650)
                 /\ payload.verified <=> payload.verdict = "BIOLOGICAL CONTROLLER DETECTED"
            /\ lastResp'.endpoint = "/api/embed/verify" =>
                 payload.verified <=> jsGeq(payload.score, 600)
            /\ \A o \in Overalls \cup {590, 600} :
                 ReceiptEmbed(payload.challengeId, Result(o)).verified <=> o >= 600 ]_vars

\* a standalone verify scored 0.64 got a receipt that is not verified
C24_Witness ==
  /\ lastResp.kind = "verify"
  /\ lastResp.status = 200
  /\ lastResp.endpoint = "/api/verify"
  /\ ReceiptOf(lastResp).score = 640
  /\ ~ReceiptOf(lastResp).verified
  /\ challenges[ReceiptOf(lastResp).challengeId].used

\* C25 (as stated): with bucket = (trackingDuration - 2800) / pulseCount, the offset of
\* pulse i lies in [2800 + i * bucket, 2800 + (i + 1) * bucket); the offsets
\* are below trackingDuration and strictly increasing; consecutive offsets are
\* at least 60% of the bucket apart.
C25_Original ==
  Returned("pulses") =>
    LET c == call.arg.pulseCount
        d == call.arg.trackingDuration
        ps == call.out[1]
    IN /\ Len(ps) = c
       /\ \A n \in 1 .. c :
            /\ ps[n].offsetMs * c >= 2800 * c + (n - 1) * (d - 2800)
            /\ ps[n].offsetMs * c < 2800 * c + n * (d - 2800)
            /\ ps[n].offsetMs < d
       /\ \A n \in 1 .. c - 1 :
            /\ ps[n].offsetMs < ps[n + 1].offsetMs
            /\ (ps[n + 1].offsetMs - ps[n].offsetMs) * c * 10 >= 6 * (d - 2800)

\* C25 (amended): with bucket = (trackingDuration - 2800) / pulseCount, the
\* offset of pulse i is the rounding of a point of the first 60% of bucket i,
\* so it lies from 2800 + i * bucket - 0.5 to 2800 + (i + 0.6) * bucket + 0.5;
\* the offsets are below trackingDuration and strictly increasing; consecutive
\* offsets are at least 40% of the bucket less one millisecond apart.
C25_PulseJitter ==
  Returned("pulses") =>
    LET c == call.arg.pulseCount
        d == call.arg.trackingDuration
        ps == call.out[1]
    IN /\ Len(ps) = c
       /\ \A n \in 1 .. c :
            /\ 2 * c * ps[n].offsetMs >= 2 * c * 2800 + 2 * (n - 1) * (d - 2800) - c
            /\ 10 * c * ps[n].offsetMs
                 <= 10 * c * 2800 + 10 * (n - 1) * (d - 2800) + 6 * (d - 2800) + 5 * c
            /\ ps[n].offsetMs < d
       /\ \A n \in 1 .. c - 1 :
            /\ ps[n].offsetMs < ps[n + 1].offsetMs
            /\ (ps[n + 1].offsetMs - ps[n].offsetMs + 1) * c * 10 >= 4 * (d - 2800)

\* a schedule with two pulses less than 60% of the bucket apart, and a pulse
\* whose rounded offset is below the start of its bucket
C25_Witness ==
  /\ Returned("pulses")
  /\ LET c == call.arg.pulseCount
         d == call.arg.trackingDuration
         ps == call.out[1]
     IN /\ \E n \in 1 .. c - 1 :
             (ps[n + 1].offsetMs - ps[n].offsetMs) * c * 10 < 6 * (d - 2800)
        /\ \E n \in 1 .. c :
             ps[n].offsetMs * c < 2800 * c + (n - 1) * (d - 2800)

\* C26: a generated challenge, standalone or embed, has exactly 5 probes; their
\* frequencies are members of FREQ_POOL, pairwise distinct and strictly
\* ascending in probe order, whatever order the shuffle left them in.
C26_ProbesAscending ==
  Returned("probes") =>
    LET ps == call.out[1]
    IN /\ Len(FREQ_POOL) = 18
       /\ Len(ps) = 5
       /\ \A i \in 1 .. 5 : ps[i].freq \in Range(FREQ_POOL)
       /\ \A i, j \in 1 .. 5 : i # j => ps[i].freq # ps[j].freq
       /\ \A i \in 1 .. 4 : ps[i].freq < ps[i + 1].freq

\* the probes of an embed challenge whose shuffle put the largest picked
\* frequency second
C26_Witness ==
  /\ Returned("probes")
  /\ call.arg.mode = "embed"
  /\ call.arg.shuffled[2] > call.arg.shuffled[1]
  /\ call.arg.shuffled[2] > call.arg.shuffled[3]
  /\ call.out[1][5].freq = call.arg.shuffled[2]

\* C27: the cognitive task of a standalone challenge has exactly 8 flashes and
\* a targetCount in 2 .. 5; exactly targetCount flashes have isTarget, those of
\* the target color; every other flash has one of the two distractor colors.
C27_TargetFlashes ==
  Returned("cogTask") =>
    LET task == call.out[1]
        targets == {i \in DOMAIN task.flashes : task.flashes[i].isTarget}
        distractors == Range(cogTargetColors) \ {task.targetColor}
    IN /\ Len(task.flashes) = 8
       /\ task.targetCount \in 2 .. 5
       /\ Cardinality(targets) = task.targetCount
       /\ Cardinality(distractors) = 2
       /\ \A i \in DOMAIN task.flashes :
            /\ task.flashes[i].isTarget <=> task.flashes[i].color = task.targetColor
            /\ ~task.flashes[i].isTarget => task.flashes[i].color \in distractors

\* a task of 5 targets whose shuffle moved a target to the last flash, with
\* flashes of both distractor colors
C27_Witness ==
  /\ Returned("cogTask")
  /\ call.out[1].targetCount = 5
  /\ call.out[1].flashes[8].isTarget
  /\ Cardinality({call.out[1].flashes[i].color : i \in 1 .. 8}) = 3

\* C28: a POST to a verify endpoint whose body is over the size limit, is not
\* JSON, is empty or is the JSON value null gets a response with status 400 or
\* 401 and leaves the challenge store unchanged.
C28_BadBodyAnswered ==
  [][ (lastResp = NoResp /\ lastResp'.kind = "raw")
      => /\ lastResp'.status \in {400, 401}
         /\ challenges' = challenges ]_vars

\* ------------------------------------------------------------------------ C29
\* a verify handler has just answered a request whose token is a receipt
AnswersReceipt == lastResp = NoResp /\ lastResp'.kind = "receipt"

\* the challenge a receipt names
ReceiptChallenge(resp) == b64urlDecode(resp.body.token.payload).value.challengeId

\* C29 as stated: a signed receipt presented as the token of a verify request
\* is answered 409 or 404, never 200, and no challenge record changes.
C29_Original ==
  [][ AnswersReceipt
      => /\ lastResp'.status \in {404, 409}
         /\ challenges' = challenges ]_vars

\* C29: a signed receipt presented as the token of a verify request never
\* leads to a 200 and changes no challenge record.  POST /api/verify answers
\* it 409 while the record is stored and 404 once it has been evicted; POST
\* /api/embed/verify answers the same, except that a record whose mode is not
\* "embed" is answered 400 wrong_challenge_mode, the mode being tested before
\* the used flag.
C29_ReceiptAsToken ==
  [][ AnswersReceipt
      => LET c == ReceiptChallenge(lastResp') IN
         /\ lastResp'.status # 200
         /\ lastResp'.receipt = <<>>
         /\ challenges' = challenges
         /\ sessions' = sessions
         /\ lastResp'.status =
              IF c \notin DOMAIN challenges THEN 404
              ELSE IF lastResp'.endpoint = "/api/embed/verify"
                      /\ challenges[c].mode # "embed" THEN 400
              ELSE 409
         /\ c \in DOMAIN challenges => challenges[c].used ]_vars

\* a receipt has been presented to POST /api/verify while its challenge was
\* still stored, and was answered 409
C29_Witness ==
  /\ lastResp.kind = "receipt"
  /\ lastResp.endpoint = "/api/verify"
  /\ lastResp.status = 409
  /\ lastResp.error = "challenge_already_used"
  /\ ReceiptChallenge(lastResp) \in DOMAIN challenges

\* ------------------------------------------------------------------------ C30
\* C30: in every reachable state of the challenge store, a record with
\* used = true also has usedAt set, whichever path set the flag: successful
\* verify, shape failure, analysis failure or lazy expiry.
C30_UsedHasUsedAt ==
  \A c \in DOMAIN challenges :
    challenges[c].used => challenges[c].usedAt # Undefined

\* ------------------------------------------------------------------------ C31
\* the time at which a pulse of a perturbation starts, on the axis of its mode
PulseStart(mode, pulse) == IF mode = "embed" THEN pulse.hoverTimeMs ELSE pulse.offsetMs

\* C31: in every generated challenge, standalone and embed, the active window
\* [start, start + pulseHoldDuration + pulseReturnDuration) of pulse i ends no
\* later than the start of pulse i + 1, so at most one pulse contributes at
\* any time.
C31_PulseWindowsDisjoint ==
  Returned("perturbation") =>
    LET p == call.out[1]
        m == call.arg.mode
    IN \A n \in 1 .. Len(p.pulses) - 1 :
         PulseStart(m, p.pulses[n]) + p.pulseHoldDuration + p.pulseReturnDuration
           <= PulseStart(m, p.pulses[n + 1])

\* ------------------------------------------------------------------------ C32
\* what the claim lets the pulse of amplitude amp add dt milliseconds after
\* its start: all of it during the hold, amp * (1 - frac * frac) during the
\* return, nothing before and after
Contribution(amp, dt, hold, ret) ==
  IF 0 <= dt /\ dt < hold THEN amp
  ELSE IF hold <= dt /\ dt < hold + ret
  THEN LET part == ((IF amp >= 0 THEN amp ELSE 0 - amp)
                      * (ret * ret - (dt - hold) * (dt - hold))) \div (ret * ret)
       IN IF amp >= 0 THEN part ELSE 0 - part
  ELSE 0

RECURSIVE Contributions(_, _, _, _, _)
Contributions(axis, pulseList, t0, hold, ret) ==
  IF pulseList = <<>> THEN 0
  ELSE Contribution(1000 * Head(pulseList)[axis], t0 - Head(pulseList).offsetMs, hold, ret)
         + Contributions(axis, Tail(pulseList), t0, hold, ret)

\* C32: in reconstruction, a pulse with dt = t - (trackingStart + offsetMs)
\* adds the full (ampX, ampY) and sets isPulse with its index when
\* 0 <= dt < pulseHoldDuration; adds amp * (1 - frac^2), with
\* frac = (dt - pulseHoldDuration) / pulseReturnDuration, without setting
\* isPulse when pulseHoldDuration <= dt < pulseHoldDuration +
\* pulseReturnDuration; adds nothing otherwise; at dt = pulseHoldDuration the
\* return adds the full amplitude.
C32_PulseContribution ==
  Returned("computePerturbation") =>
    LET a == call.arg
        p == a.perturbation
        out == call.out[1]
        sine == multiSine(a.probes, a.t - a.trackingStart)
        t0 == a.t - a.trackingStart
        holding == {n \in 1 .. Len(p.pulses) :
                      /\ 0 <= t0 - p.pulses[n].offsetMs
                      /\ t0 - p.pulses[n].offsetMs < p.pulseHoldDuration}
    IN /\ out.x - sine.x
            = Contributions("ampX", p.pulses, t0, p.pulseHoldDuration, p.pulseReturnDuration)
       /\ out.y - sine.y
            = Contributions("ampY", p.pulses, t0, p.pulseHoldDuration, p.pulseReturnDuration)
       /\ out.isPulse <=> holding # {}
       /\ IF holding = {} THEN out.pulseIndex = -1
          ELSE out.pulseIndex + 1 \in holding
       /\ \A n \in 1 .. Len(p.pulses) :
            (/\ t0 - p.pulses[n].offsetMs = p.pulseHoldDuration
             /\ \A k \in 1 .. Len(p.pulses) \ {n} :
                  Contribution(1000 * p.pulses[k].ampX, t0 - p.pulses[k].offsetMs,
                               p.pulseHoldDuration, p.pulseReturnDuration) = 0)
              => out.x - sine.x = 1000 * p.pulses[n].ampX

\* computePerturbation has run at the instant a hold ends: the pulse still
\* adds its full amplitude and isPulse is not set
C32_Witness ==
  /\ Returned("computePerturbation")
  /\ call.arg.probes = <<>>
  /\ \E n \in 1 .. Len(call.arg.perturbation.pulses) :
       /\ call.arg.t - call.arg.trackingStart - call.arg.perturbation.pulses[n].offsetMs
            = call.arg.perturbation.pulseHoldDuration
       /\ call.out[1].x = 1000 * call.arg.perturbation.pulses[n].ampX
  /\ ~call.out[1].isPulse
  /\ call.out[1].pulseIndex = -1

\* ------------------------------------------------------------------------ C33
\* the samples of a pointer array that are not before trackingStart, in order
RECURSIVE Kept(_, _)
Kept(pointer, trackingStart) ==
  IF pointer = <<>> THEN <<>>
  ELSE IF Head(pointer)[1] < trackingStart THEN Kept(Tail(pointer), trackingStart)
  ELSE <<Head(pointer)>> \o Kept(Tail(pointer), trackingStart)

\* the pathTime the claim gives a kept sample
ClaimedPathTime(t, phases, trackingDuration) ==
  IF t < phases.dualtaskStart THEN t - phases.trackingStart
  ELSE trackingDuration + (t - phases.dualtaskStart)

\* C33: reconstructTracking drops every sample with t < trackingStart; the
\* output has one entry per kept sample, in input order; the smooth part of
\* each entry's target is the path at pathTime = t - trackingStart when
\* t < dualtaskStart and at trackingDuration + (t - dualtaskStart) otherwise,
\* trackingDuration being the stored challenge's.
C33_PathTime ==
  Returned("reconstructTracking") =>
    LET a == call.arg
        out == call.out[1]
        kept == Kept(a.pointer, a.phases.trackingStart)
    IN /\ Len(out) = Len(kept)
       /\ \A k \in 1 .. Len(out) :
            LET at == smoothPath(a.challenge.path,
                                 ClaimedPathTime(kept[k][1], a.phases,
                                                 a.challenge.trackingDuration),
                                 a.canvas)
            IN /\ out[k].t = kept[k][1]
               /\ out[k].x = kept[k][2]
               /\ out[k].y = kept[k][3]
               /\ out[k].t >= a.phases.trackingStart
               /\ out[k].targetX - out[k].pertX = at.x
               /\ out[k].targetY - out[k].pertY = at.y

\* a run that dropped a free-move sample and kept, in the order given, a
\* dualtask sample followed by a tracking sample
C33_Witness ==
  /\ Returned("reconstructTracking")
  /\ Len(call.out[1]) = 2
  /\ call.arg.pointer[1][1] < call.arg.phases.trackingStart
  /\ call.out[1][1].t >= call.arg.phases.dualtaskStart
  /\ call.out[1][2].t < call.arg.phases.dualtaskStart
  /\ call.out[1][2].t > call.arg.phases.trackingStart
  /\ call.out[1][1].x # call.out[1][2].x

\* ------------------------------------------------------------------------ C34
\* a pointer array with the same timestamps and every position at the origin
AtOrigin(pointer) == [k \in DOMAIN pointer |-> <<pointer[k][1], 0, 0>>]

\* the fields of a tracking entry that describe the target
TargetOf(entry) ==
  [t |-> entry.t, targetX |-> entry.targetX, targetY |-> entry.targetY,
   pertX |-> entry.pertX, pertY |-> entry.pertY,
   isPulse |-> entry.isPulse, pulseIdx |-> entry.pulseIdx]

\* C34: reconstruction depends on the challenge, the phases, the canvas size
\* and the sample times only: the run on a pointer array and the run on the
\* array with the same timestamps and other x, y give the same targetX,
\* targetY, pertX, pertY, isPulse and pulseIdx for every sample.
C34_ClientPositionsUntrusted ==
  Returned("reconstructTracking") =>
    LET a == call.arg
        out == call.out[1]
        other == reconstructTracking(AtOrigin(a.pointer), a.phases, a.challenge, a.canvas)
    IN /\ Len(out) = Len(other)
       /\ \A k \in 1 .. Len(out) : TargetOf(out[k]) = TargetOf(other[k])

\* a run on samples away from the origin, one of them taken during a pulse
C34_Witness ==
  /\ Returned("reconstructTracking")
  /\ Len(call.out[1]) = 3
  /\ \A k \in 1 .. 3 : call.out[1][k].x # 0 /\ call.out[1][k].y # 0
  /\ \E k \in 1 .. 3 : call.out[1][k].isPulse /\ call.out[1][k].pulseIdx = 0

\* ------------------------------------------------------------------------ C35
\* the smooth part of the target of a tracking entry
SmoothOf(entry) ==
  [x |-> entry.targetX - entry.pertX, y |-> entry.targetY - entry.pertY]

\* the entries of a run whose sample is at pathTime = 0
AtPathStart(out, phases) ==
  {k \in 1 .. Len(out) : out[k].t = phases.trackingStart /\ out[k].t < phases.dualtaskStart}

\* C35 as stated: for every generated challenge and canvas, the smooth path
\* at pathTime = 0 is the canvas centre (width / 2, height / 2) in both
\* coordinates.
C35_Original ==
  Returned("reconstructTracking") =>
    \A k \in AtPathStart(call.out[1], call.arg.phases) :
      /\ 2 * SmoothOf(call.out[1][k]).x = 1000 * call.arg.canvas.width
      /\ 2 * SmoothOf(call.out[1][k]).y = 1000 * call.arg.canvas.height

\* C35: at pathTime = 0 the smooth path has the canvas centre's vertical
\* coordinate, height / 2, exactly; its horizontal coordinate is
\* width / 2 + width * padding * sin(path.phase), which lies to the right of
\* the centre by more than a quarter of the amplitude width * padding, since
\* path.phase is drawn from pi / 4 - 0.5 to pi / 4 + 0.5.
C35_PathStart ==
  Returned("reconstructTracking") =>
    \A k \in AtPathStart(call.out[1], call.arg.phases) :
      LET s == SmoothOf(call.out[1][k])
          cv == call.arg.canvas
          path == call.arg.challenge.path
      IN /\ 2 * s.y = 1000 * cv.height
         /\ s.x = (1000 * cv.width) \div 2 + timesSin(cv.width * path.padding, path.phase)
         /\ 4 * (s.x - (1000 * cv.width) \div 2) > cv.width * path.padding
         /\ s.x - (1000 * cv.width) \div 2 < cv.width * path.padding

\* a run with a sample at the very start of tracking on the canvas of odd size
C35_Witness ==
  /\ Returned("reconstructTracking")
  /\ AtPathStart(call.out[1], call.arg.phases) # {}
  /\ call.arg.canvas.width = 801
  /\ call.arg.challenge.path.phase = 45

\* ------------------------------------------------------------------------ C36
\* the places of a gain sequence at which the gain falls below the one before
Decreases(gains) == {i \in 2 .. Len(gains) : jsLess(gains[i], gains[i - 1])}

\* C36: hasRolloff is true exactly when the gains of the probes, in ascending
\* frequency, hold two consecutive decreases: some i with gain[i+1] < gain[i]
\* and gain[i+2] < gain[i+1].
C36_ConsecutiveDecreases ==
  Returned("hasRolloff") =>
    (call.out[1] <=> \E i \in Decreases(call.arg) : i + 1 \in Decreases(call.arg))

\* ------------------------------------------------------------------------ C37
\* the pulses of a call of analyzeCrossAxis that some sample has reached
Triggered(a) ==
  {n \in 1 .. Len(a.pulses) :
     \E k \in DOMAIN a.tracking : a.tracking[k].t >= a.trackingStart + a.pulses[n].offsetMs}

\* the triggered pulses that are usable: at least five samples in the 400 ms
\* after the pulse, and more than 2 px across between the first and the last
Usable(a) ==
  {n \in Triggered(a) :
     LET abs == a.trackingStart + a.pulses[n].offsetMs
         in == {k \in DOMAIN a.tracking : a.tracking[k].t >= abs /\ a.tracking[k].t < abs + 400}
     IN /\ Cardinality(in) >= 5
        /\ LET first == CHOOSE k \in in : \A j \in in : k <= j
               last == CHOOSE k \in in : \A j \in in : j <= k
               dx == a.tracking[last].x - a.tracking[first].x
           IN dx > 2000 \/ dx < -2000}

\* C37 as stated: the cross-axis pipeline returns valid:true whenever at least
\* two triggered pulses are usable, and valid:false otherwise.
C37_Original ==
  Returned("analyzeCrossAxis") =>
    (call.out[1].valid <=> Cardinality(Usable(call.arg)) >= 2)

\* C37: the cross-axis pipeline returns valid:true exactly when at least three
\* pulses have been triggered and at least two of the triggered pulses are
\* usable.
C37_CrossAxisValid ==
  Returned("analyzeCrossAxis") =>
    (call.out[1].valid <=> /\ Cardinality(Triggered(call.arg)) >= 3
                           /\ Cardinality(Usable(call.arg)) >= 2)

\* tracking data that ends after the second pulse, both pulses usable: the
\* pipeline returned valid:false
C37_Witness ==
  /\ Returned("analyzeCrossAxis")
  /\ Cardinality(Triggered(call.arg)) = 2
  /\ Cardinality(Usable(call.arg)) = 2
  /\ ~call.out[1].valid

\* ------------------------------------------------------------------------ C38
\* the sum of the counts an object of counts holds
RECURSIVE Total(_)
Total(counts) ==
  IF DOMAIN counts = {} THEN 0
  ELSE LET k == CHOOSE x \in DOMAIN counts : TRUE
       IN counts[k] + Total([j \in DOMAIN counts \ {k} |-> counts[j]])

\* C38: the admin aggregator skips every log line that does not parse as JSON
\* and counts all others: total is the number of session lines that parse,
\* and the device-type counts, the verdict-class counts, the mode counts and
\* the ten buckets of the score histogram each sum to total.
C38_AggregatorCounts ==
  Returned("adminStats") =>
    LET stats == call.out[1]
        parsed == {k \in DOMAIN call.arg : call.arg[k].parses /\ ~call.arg[k].isNull}
    IN /\ stats.total = Cardinality(parsed)
       /\ Total(stats.byDevice) = stats.total
       /\ Total(stats.byVerdict) = stats.total
       /\ Total(stats.byMode) = stats.total
       /\ Total(stats.scoreDistribution) = stats.total

\* ------------------------------------------------------------------------ C39
\* the wall time of the completed hovers of the client: the sum of leave - enter
RECURSIVE WallTimeOf(_)
WallTimeOf(hovers) ==
  IF hovers = <<>> THEN 0
  ELSE (Head(hovers).endWall - Head(hovers).startWall) + WallTimeOf(Tail(hovers))

\* C39: in the embed client, over any sequence of pointer-enter, pointer-move,
\* animation-frame and pointer-leave events with non-decreasing timestamps,
\* cumulative hover time never decreases and does not change while no observed
\* element is hovered; every recorded hover period has
\* endHover - startHover = endWall - startWall; and whenever no hover is in
\* progress, cumulative hover time is the sum of leave - enter over the
\* completed hovers.
C39_HoverTime ==
  [][ /\ client'.cumulativeHoverTime >= client.cumulativeHoverTime
      /\ client.hoveredEl = 0
           => client'.cumulativeHoverTime = client.cumulativeHoverTime
      /\ \A k \in 1 .. Len(client'.hovers) :
           LET h == client'.hovers[k]
           IN h.endHover - h.startHover = h.endWall - h.startWall
      /\ client'.hoveredEl = 0
           => client'.cumulativeHoverTime = WallTimeOf(client'.hovers) ]_vars

\* two hovers of different elements have ended, the second begun by a
\* pointer-enter that came while the first was still in progress, with
\* animation frames and pointer moves during them
C39_Witness ==
  /\ client.loaded
  /\ client.hoveredEl = 0
  /\ Len(client.hovers) = 2
  /\ client.hovers[1].index # client.hovers[2].index
  /\ client.hovers[1].endWall = client.hovers[2].startWall
  /\ client.hovers[1].endWall > client.hovers[1].startWall
  /\ client.hovers[2].endWall > client.hovers[2].startWall
  /\ client.cumulativeHoverTime = 3500
  /\ client.pulseLog # <<>>

\* ------------------------------------------------------------------------ C40
\* C40: in the embed client, across any sequence of hover and animation-frame
\* events, the entries of pulseLog are the pulses of the challenge in schedule
\* order, each at most once; a pulse is logged only at a tick at which an
\* element is hovered and cumulative hover time has reached its hoverTimeMs;
\* and _nextPulseIndex is always the number of logged pulses.
C40_PulseLog ==
  [][ LET log == client'.pulseLog
          before == client.pulseLog
          ps == client'.challenge.pulses
      IN /\ client'.nextPulseIndex = Len(log)
         /\ Len(log) <= Len(ps)
         /\ \A k \in 1 .. Len(log) :
              /\ log[k].hoverTimeMs = ps[k].hoverTimeMs
              /\ log[k].ampX = ps[k].ampX
              /\ log[k].ampY = ps[k].ampY
         /\ Len(before) <= Len(log)
         /\ \A k \in 1 .. Len(before) : log[k] = before[k]
         /\ \A k \in Len(before) + 1 .. Len(log) :
              /\ client.hoveredEl # 0
              /\ client'.hoveredEl = client.hoveredEl
              /\ client'.lastHoverTick = client'.clock
              /\ log[k].wallTime = client'.clock
              /\ log[k].index = client'.hoveredIndex
              /\ client'.cumulativeHoverTime >= log[k].hoverTimeMs ]_vars

\* every pulse of the schedule has been logged, the last two at the same tick,
\* and events have followed the last pulse
C40_Witness ==
  /\ client.loaded
  /\ Len(client.pulseLog) = Len(client.challenge.pulses)
  /\ client.nextPulseIndex = Len(client.challenge.pulses)
  /\ \E k \in 1 .. Len(client.pulseLog) - 1 :
       client.pulseLog[k].wallTime = client.pulseLog[k + 1].wallTime
  /\ client.clock > client.pulseLog[Len(client.pulseLog)].wallTime

====
